---- MODULE Spec2Model ----
(***************************************************************************)
(* A model of claude-convo's core: the JSONL session parser                *)
(* (src/src/parser_v2.rs), the BM25 scorer (src/src/bm25.rs) and the       *)
(* session search built on both (src/src/main.rs, search_in_session).      *)
(*                                                                         *)
(* A Rust String is a sequence of characters, each a string: an ASCII      *)
(* character is itself and a character outside ASCII has a name.  An f64   *)
(* is a                                                                    *)
(* record [k, v]: k is "fin", "inf" or "nan", and v is the finite value in *)
(* fixed point (thousandths for idf and the tf component, millionths for a *)
(* score).  Option<T> is a record with a boolean field `some`.             *)
(*                                                                         *)
(* The specifications share the variables:                                 *)
(*   SpecParse   parse_session_file, one loop iteration per step           *)
(*   SpecSearch  search_in_session, one statement or loop iteration a step *)
(*   SpecScore   BM25::new followed by calls of BM25::score                *)
(*   SpecConvert   convert_to_display_event on a file of one record        *)
(*   SpecTokenize  tokenize, then tokenize of its space-joined output      *)
(*   SpecSnippet   extract_snippet_with_words, on byte offsets             *)
(*   SpecHighlight highlight_match, one search of the loop a step          *)
(*   SpecName      SessionNameGenerator::generate                          *)
(*   SpecFind      find_session_file, one project directory a step         *)
(*   SpecTotals    the token totals of the header and of the export        *)
(***************************************************************************)
EXTENDS Integers, Sequences, FiniteSets, TLC

VARIABLES
    pc,             \* position of the running function
    file,           \* the session file: [exists, lines]
    pos,            \* parse_session_file: number of lines consumed by the loop
    events,         \* parse_session_file: `events`; search_in_session: `events`
    result,         \* what the function returned: [tag, err]
    query,          \* search_in_session / BM25::score: `query`
    documents,      \* search_in_session: `documents`; BM25::new: `documents`
    bm25,           \* the BM25 struct
    doc_idx,        \* search_in_session: number of documents scored so far
    scored_matches, \* search_in_session: `scored_matches`
    score_prev,     \* SpecScore: the score call before the last one
    score_last,     \* SpecScore: the last score call, [called, document, score]
    text_in,        \* tokenize / extract_snippet_with_words: `text`
    tokenized,      \* SpecTokenize: tokenize(text)
    retokenized,    \* SpecTokenize: tokenize of the space-joined tokens
    query_words,    \* extract_snippet_with_words: `query_words`
    context_chars,  \* extract_snippet_with_words: `context_chars`
    best_pos,       \* extract_snippet_with_words: `best_pos`
    start,          \* extract_snippet_with_words: `start`, a byte offset
    end,            \* extract_snippet_with_words: `end`, a byte offset
    snippet,        \* extract_snippet_with_words: the returned String
    highlighted_ranges, \* highlight_match: `highlighted_ranges`
    search_pos,     \* highlight_match: `search_pos`, a byte offset
    word_idx,       \* highlight_match: number of query words done
    highlighted,    \* highlight_match: `result`, the returned String
    overflow_checks, \* the build: TRUE when integer overflow panics (debug)
    hash,           \* SessionNameGenerator::generate: `hash`
    project_type,   \* SessionNameGenerator::generate: `project_type`
    session_name,   \* SessionNameGenerator::generate: the returned String
    claude_dir,     \* find_session_file: the entries of `claude_dir`
    session_id,     \* find_session_file: `session_id`
    dir_idx,        \* find_session_file: number of entries visited
    found,          \* find_session_file: what it returned
    total_input,    \* print_session_header / export_command: `total_input`
    total_output,   \* print_session_header / export_command: `total_output`
    event_idx       \* print_session_header / export_command: events added

\* the variables of the session parser, the scorer and the search, but pc
coreVarsButPc == <<file, pos, events, result, query, documents, bm25, doc_idx,
                   scored_matches, score_prev, score_last>>

\* the variables of the tokenizer and the snippet extractor
textVars == <<text_in, tokenized, retokenized, query_words, context_chars,
              best_pos, start, end, snippet>>

\* the variables of highlight_match
hlVars == <<highlighted_ranges, search_pos, word_idx, highlighted>>

\* the variables of SessionNameGenerator::generate
nameVars == <<hash, project_type, session_name>>

\* the variables of find_session_file
findVars == <<claude_dir, session_id, dir_idx, found>>

\* the variables of the token totals
totalVars == <<overflow_checks, total_input, total_output, event_idx>>

\* the variables of the functions outside parsing, scoring and snippets
otherVars == <<hlVars, nameVars, findVars, totalVars>>

vars == <<pc, coreVarsButPc, textVars, otherVars>>

HlIdle ==
    /\ highlighted_ranges = <<>>
    /\ search_pos = 0
    /\ word_idx = 0
    /\ highlighted = <<>>

NameIdle ==
    /\ hash = [top |-> FALSE, v |-> 0]
    /\ project_type = ""
    /\ session_name = <<>>

FindIdle ==
    /\ claude_dir = <<>>
    /\ session_id = <<>>
    /\ dir_idx = 0
    /\ found = <<>>

TotalIdle ==
    /\ overflow_checks = FALSE
    /\ total_input = 0
    /\ total_output = 0
    /\ event_idx = 0

\* the variables a function that handles no text of its own leaves alone
TextIdle ==
    /\ text_in = <<>>
    /\ tokenized = <<>>
    /\ retokenized = <<>>
    /\ query_words = <<>>
    /\ context_chars = 0
    /\ best_pos = [some |-> FALSE, v |-> 0]
    /\ start = 0
    /\ end = 0
    /\ snippet = <<>>
    /\ HlIdle
    /\ NameIdle
    /\ FindIdle
    /\ TotalIdle

----------------------------------------------------------------------------
(* Bounds of the model *)

MaxLines == 3
MaxTs == 2
MaxDocs == 3
MaxCorpus == 2

----------------------------------------------------------------------------
(* Strings *)

RECURSIVE JoinWith(_, _)
\* [String]::join(sep)
JoinWith(ss, sep) ==
    IF ss = <<>> THEN <<>>
    ELSE IF Len(ss) = 1 THEN Head(ss)
    ELSE Head(ss) \o sep \o JoinWith(Tail(ss), sep)

UpperChars == <<"A","B","C","D","E","F","G","H","I","J","K","L","M",
                "N","O","P","Q","R","S","T","U","V","W","X","Y","Z">>
LowerChars == <<"a","b","c","d","e","f","g","h","i","j","k","l","m",
                "n","o","p","q","r","s","t","u","v","w","x","y","z">>

\* char lowercasing, on the ASCII letters the model's texts use
LowerChar(c) ==
    IF \E i \in 1..Len(UpperChars) : UpperChars[i] = c
    THEN LowerChars[CHOOSE i \in 1..Len(UpperChars) : UpperChars[i] = c]
    ELSE c

\* The characters outside ASCII are named: "I_dot" is U+0130 (capital I with
\* dot above), "dot_above" is U+0307 (combining dot above), "Kelvin" is
\* U+212A (Kelvin sign), "Sigma", "sigma" and "final_sigma" are U+03A3,
\* U+03C3 and U+03C2, "E_acute" and "e_acute" are U+00C9 and U+00E9, "Han"
\* is U+4E2D (a CJK ideograph: a letter without case).

\* the Cased and Case_Ignorable properties, on the characters the model's
\* texts use
IsCased(c) ==
    \/ \E i \in 1..Len(UpperChars) : c = UpperChars[i] \/ c = LowerChars[i]
    \/ c \in {"I_dot", "Kelvin", "Sigma", "sigma", "final_sigma", "E_acute",
              "e_acute"}
IsCaseIgnorable(c) == c = "dot_above"

\* core::str case_ignorable_then_cased, on the characters in iteration order
CaseIgnorableThenCased(chars) ==
    \E i \in 1..Len(chars) :
        /\ IsCased(chars[i])
        /\ \A j \in 1..(i - 1) : IsCaseIgnorable(chars[j])

\* the least element of a non-empty set of numbers
Least(S) == CHOOSE x \in S : \A y \in S : x <= y

\* the reverse of a sequence
Reverse(s) == [i \in 1..Len(s) |-> s[Len(s) + 1 - i]]

\* str::to_lowercase with each letter's case swapped instead
to_lowercase_SwapCase(text) ==
    [i \in 1..Len(text) |->
        IF \E k \in 1..Len(UpperChars) : UpperChars[k] = text[i]
        THEN LowerChars[CHOOSE k \in 1..Len(UpperChars) : UpperChars[k] = text[i]]
        ELSE IF \E k \in 1..Len(LowerChars) : LowerChars[k] = text[i]
        THEN UpperChars[CHOOSE k \in 1..Len(LowerChars) : LowerChars[k] = text[i]]
        ELSE text[i]]

\* what str::to_lowercase pushes for the character at index i: a capital
\* sigma becomes the final sigma at the end of a word and the plain one
\* elsewhere, and a character's lowercase may be several characters
LowerAt(text, i) ==
    LET c == text[i] IN
    IF c = "Sigma"
    THEN IF /\ CaseIgnorableThenCased(Reverse(SubSeq(text, 1, i - 1)))
            /\ ~CaseIgnorableThenCased(SubSeq(text, i + 1, Len(text)))
         THEN <<"final_sigma">>
         ELSE <<"sigma">>
    ELSE IF c = "I_dot" THEN <<"i", "dot_above">>
    ELSE IF c = "Kelvin" THEN <<"k">>
    ELSE IF c = "E_acute" THEN <<"e_acute">>
    ELSE <<LowerChar(c)>>

\* str::to_lowercase
to_lowercase(text) ==
    LET L[i \in 0..Len(text)] ==
            IF i = 0 THEN <<>> ELSE L[i - 1] \o LowerAt(text, i)
    IN  L[Len(text)]

\* char::is_whitespace, on the characters the model's texts use
IsWhitespace(c) == c \in {" ", "\t", "\n", "\r"}

RECURSIVE SplitFrom(_, _, _)
\* str::split_whitespace: the maximal runs of non-whitespace characters, in
\* order; `cur` is the run being read
SplitFrom(text, i, cur) ==
    IF i > Len(text)
    THEN IF cur = <<>> THEN <<>> ELSE <<cur>>
    ELSE IF IsWhitespace(text[i])
         THEN (IF cur = <<>> THEN <<>> ELSE <<cur>>) \o SplitFrom(text, i + 1, <<>>)
         ELSE SplitFrom(text, i + 1, Append(cur, text[i]))

split_whitespace(text) == SplitFrom(text, 1, <<>>)

\* str::trim().is_empty()
TrimIsEmpty(text) == \A i \in 1..Len(text) : IsWhitespace(text[i])

\* bm25.rs tokenize: lowercase, split on whitespace, drop empty tokens
tokenize(text) ==
    SelectSeq(split_whitespace(to_lowercase(text)), LAMBDA s : s /= <<>>)

\* the words the model's texts are made of
W_the == <<"t","h","e">>
W_quick == <<"q","u","i","c","k">>
W_brown == <<"b","r","o","w","n">>
W_fox == <<"f","o","x">>
W_Fox == <<"F","o","x">>
W_lazy == <<"l","a","z","y">>
W_dog == <<"d","o","g">>
W_DOG == <<"D","O","G">>
W_hunts == <<"h","u","n","t","s">>
W_cat == <<"c","a","t">>
SP == <<" ">>
NL == <<"\n">>

\* the corpus and the query of the specification's end-to-end example
ExampleDoc1 == JoinWith(<<W_the, W_quick, W_brown, W_fox>>, SP)
ExampleDoc2 == JoinWith(<<W_the, W_lazy, W_dog>>, SP)
ExampleDoc3 == JoinWith(<<W_brown, W_fox, W_hunts>>, SP)
ExampleQuery == JoinWith(<<W_brown, W_fox>>, SP)

----------------------------------------------------------------------------
(* Option<T> *)

None == [some |-> FALSE, v |-> <<>>]
Some(x) == [some |-> TRUE, v |-> x]

----------------------------------------------------------------------------
(* parser_v2.rs: one line of the session file *)

\* A line of the file, by what the reader and the decoder see of it:
\*   utf8     the bytes of the line are valid UTF-8 (BufRead::lines yields Ok)
\*   blank    line.trim().is_empty()
\*   json     the text is a syntactically valid JSON object
\*   type     its "type" discriminant
\*   fields   every required field of that variant is present and well typed
\*   ts       "timestamp"
\*   level    System: "level"
\*   is_text  User: message.content is a plain string (UserContent::Text)
\*   content  System: "content"; User with is_text: message.content
\*   blocks   User without is_text, Assistant: message.content, a list of
\*            [type, text, name, id, input, fields] (text is a Text block's
\*            text, a Thinking block's thinking, a ToolResult block's content;
\*            fields says whether the block's fields are present and typed
\*            as the enum declares)
\*   usage    Assistant: message.usage
\*   model    Assistant: message.model
NoUsage == [some |-> FALSE, input_tokens |-> 0, output_tokens |-> 0]
NoLevel == [some |-> FALSE, v |-> ""]
SomeLevel(l) == [some |-> TRUE, v |-> l]

BaseLine ==
    [utf8 |-> TRUE, blank |-> FALSE, json |-> TRUE, type |-> "summary",
     fields |-> TRUE, ts |-> 0, level |-> NoLevel, is_text |-> TRUE,
     content |-> <<>>, blocks |-> <<>>, usage |-> NoUsage, model |-> <<>>]

BadUtf8Line == [BaseLine EXCEPT !.utf8 = FALSE]
BlankLine == [BaseLine EXCEPT !.blank = TRUE, !.json = FALSE]
GarbageLine == [BaseLine EXCEPT !.json = FALSE]
UnknownTypeLine == [BaseLine EXCEPT !.type = "other"]
MissingFieldLine == [BaseLine EXCEPT !.type = "user", !.fields = FALSE]
SummaryLine == BaseLine

UserTextLine(ts, text) ==
    [BaseLine EXCEPT !.type = "user", !.ts = ts, !.content = text]

UserBlocksLine(ts, blocks) ==
    [BaseLine EXCEPT !.type = "user", !.ts = ts, !.is_text = FALSE,
                     !.blocks = blocks]

AssistantLine(ts, blocks) ==
    [BaseLine EXCEPT !.type = "assistant", !.ts = ts, !.is_text = FALSE,
                     !.blocks = blocks, !.model = <<"m">>]

SystemLine(ts, level, text) ==
    [BaseLine EXCEPT !.type = "system", !.ts = ts, !.level = level,
                     !.content = text]

Block(type, text) ==
    [type |-> type, text |-> text, name |-> <<>>, id |-> <<>>, input |-> <<>>,
     fields |-> TRUE]
ToolUseBlockWith(name, id, input) ==
    [type |-> "tool_use", text |-> <<>>, name |-> name, id |-> id,
     input |-> input, fields |-> TRUE]

\* a block with a field missing or of another type than the enum declares
\* (a ToolResult whose content is not a string)
MalformedBlock(type, text) == [Block(type, text) EXCEPT !.fields = FALSE]
ToolUseBlock(name, id) == ToolUseBlockWith(name, id, <<>>)

\* the block types UserContentBlock and AssistantContentBlock decode
UserBlockTypes == {"text", "image", "tool_result"}
AssistantBlockTypes == {"text", "thinking", "tool_use"}

\* a content block decodes as a variant of the enum with these tags
BlockDecodes(b, types) == b.type \in types /\ b.fields

\* serde_json::from_str with the blocks that do not decode left out of the
\* entry instead of failing it
FromStr_DropBadBlocks(line) ==
    IF ~line.json \/ ~line.fields
        THEN [ok |-> FALSE, entry |-> line]
    ELSE IF line.type \notin {"summary", "user", "assistant", "system"}
        THEN [ok |-> FALSE, entry |-> line]
    ELSE IF line.type = "user" /\ ~line.is_text
        THEN [ok |-> TRUE,
              entry |-> [line EXCEPT !.blocks =
                  SelectSeq(line.blocks,
                            LAMBDA b : BlockDecodes(b, UserBlockTypes))]]
    ELSE IF line.type = "assistant"
        THEN [ok |-> TRUE,
              entry |-> [line EXCEPT !.blocks =
                  SelectSeq(line.blocks,
                            LAMBDA b : BlockDecodes(b, AssistantBlockTypes))]]
    ELSE [ok |-> TRUE, entry |-> line]

\* serde_json::from_str::<SessionEntry>(&line): the decoded entry, or Err.
\* The decoded entry is the line's record itself.  A Vec of blocks decodes
\* only when each of its elements does.
FromStr(line) ==
    IF ~line.json \/ ~line.fields
        THEN [ok |-> FALSE, entry |-> line]
    ELSE IF line.type \notin {"summary", "user", "assistant", "system"}
        THEN [ok |-> FALSE, entry |-> line]
    ELSE IF /\ line.type = "user"
            /\ ~line.is_text
            /\ \E i \in 1..Len(line.blocks) :
                   ~BlockDecodes(line.blocks[i], UserBlockTypes)
        THEN [ok |-> FALSE, entry |-> line]
    ELSE IF /\ line.type = "assistant"
            /\ \E i \in 1..Len(line.blocks) :
                   ~BlockDecodes(line.blocks[i], AssistantBlockTypes)
        THEN [ok |-> FALSE, entry |-> line]
    ELSE [ok |-> TRUE, entry |-> line]

NoTool == [some |-> FALSE, name |-> <<>>, id |-> <<>>, input |-> <<>>]

\* struct DisplayEvent.  `line` is not a field of the struct: it records the
\* number of the file line the event was made from.
DisplayEvent(ts, role, content, tool_info, thinking, usage, model, n) ==
    [timestamp |-> ts, role |-> role, content |-> content,
     tool_info |-> tool_info, thinking |-> thinking, usage |-> usage,
     model |-> model, line |-> n]

\* the User arm with an Image block kept as an empty text
UserBlockTexts_ImageAsEmpty(blocks) == [i \in 1..Len(blocks) |-> blocks[i].text]

\* convert_to_display_event, User arm: the text of the blocks that have one
UserBlockTexts(blocks) ==
    LET kept == SelectSeq(blocks, LAMBDA b : b.type \in {"text", "tool_result"})
    IN  [i \in 1..Len(kept) |-> kept[i].text]

\* one step of the Assistant loop on block b
AssistantStep(acc, b) ==
    IF b.type = "text"
    THEN [acc EXCEPT !.content =
             (IF acc.content /= <<>> THEN acc.content \o NL ELSE acc.content)
             \o b.text]
    ELSE IF b.type = "thinking"
    THEN [acc EXCEPT !.thinking = Some(b.text)]
    ELSE [acc EXCEPT !.tool_info =
             [some |-> TRUE, name |-> b.name, id |-> b.id, input |-> b.input]]

\* the Assistant loop with a Thinking block kept only when none was kept yet
AssistantFold_FirstThinking(blocks, i, acc) ==
    LET F[j \in 0..Len(blocks)] ==
            IF j = 0 THEN acc
            ELSE IF blocks[j].type = "thinking" /\ F[j - 1].thinking.some
                 THEN F[j - 1]
                 ELSE AssistantStep(F[j - 1], blocks[j])
    IN  F[Len(blocks)]

\* the Assistant loop with a ToolUse block kept only when none was kept yet
AssistantFold_FirstToolUse(blocks, i, acc) ==
    LET F[j \in 0..Len(blocks)] ==
            IF j = 0 THEN acc
            ELSE IF blocks[j].type = "tool_use" /\ F[j - 1].tool_info.some
                 THEN F[j - 1]
                 ELSE AssistantStep(F[j - 1], blocks[j])
    IN  F[Len(blocks)]

RECURSIVE AssistantFold(_, _, _)
\* convert_to_display_event, Assistant arm: the loop over message.content;
\* acc is [content, tool_info, thinking]
AssistantFold(blocks, i, acc) ==
    IF i > Len(blocks) THEN acc
    ELSE AssistantFold(blocks, i + 1, AssistantStep(acc, blocks[i]))

\* format!("system:{}", level.as_deref().unwrap_or("info"))
SystemRole(level) == "system:" \o (IF level.some THEN level.v ELSE "info")

\* an Option<DisplayEvent> of the model
NoEvent ==
    [some |-> FALSE,
     v |-> DisplayEvent(0, "", <<>>, NoTool, None, NoUsage, None, 0)]

\* convert_to_display_event, the User, Assistant and System arms
ConvertRecord(entry, n) ==
    IF entry.type = "user" THEN
        DisplayEvent(entry.ts, "user",
            IF entry.is_text THEN entry.content
            ELSE JoinWith(UserBlockTexts(entry.blocks), NL),
            NoTool, None, NoUsage, None, n)
    ELSE IF entry.type = "assistant" THEN
        LET acc == AssistantFold(entry.blocks, 1,
                       [content |-> <<>>, tool_info |-> NoTool, thinking |-> None])
        IN  DisplayEvent(entry.ts, "assistant", acc.content, acc.tool_info,
                         acc.thinking, entry.usage, Some(entry.model), n)
    ELSE
        DisplayEvent(entry.ts, SystemRole(entry.level), entry.content,
                     NoTool, None, NoUsage, None, n)

\* convert_to_display_event with the Summary arm making an event as well
convert_to_display_event_KeepSummary(entry, n) ==
    IF entry.type = "summary"
    THEN [some |-> TRUE,
          v |-> DisplayEvent(entry.ts, "summary", entry.content, NoTool, None,
                             NoUsage, None, n)]
    ELSE [some |-> TRUE, v |-> ConvertRecord(entry, n)]

\* convert_to_display_event(entry); n is the line number the entry came from
convert_to_display_event(entry, n) ==
    IF entry.type = "summary"
    THEN NoEvent
    ELSE [some |-> TRUE, v |-> ConvertRecord(entry, n)]

\* Result<Vec<DisplayEvent>>
Ok(v) == [tag |-> "Ok", err |-> "", v |-> v]
Err(kind) == [tag |-> "Err", err |-> kind, v |-> <<>>]
Running == [tag |-> "Running", err |-> "", v |-> <<>>]

----------------------------------------------------------------------------
(* parser_v2.rs: parse_session_file *)

\* the loop body with a decode failure propagated (`?`) instead of skipped
ParseLine_Strict(evs, line, n) ==
    IF ~line.utf8 THEN [err |-> "InvalidData", events |-> evs]
    ELSE IF line.blank THEN [err |-> "", events |-> evs]
    ELSE LET d == FromStr(line) IN
         IF d.ok
         THEN LET e == convert_to_display_event(d.entry, n) IN
              [err |-> "", events |-> IF e.some THEN Append(evs, e.v) ELSE evs]
         ELSE [err |-> "Json", events |-> evs]

\* the loop body with the events kept in timestamp order instead of pushed
ParseLine_ByTimestamp(evs, line, n) ==
    IF ~line.utf8 THEN [err |-> "InvalidData", events |-> evs]
    ELSE IF line.blank THEN [err |-> "", events |-> evs]
    ELSE LET d == FromStr(line) IN
         IF d.ok
         THEN LET e == convert_to_display_event(d.entry, n)
                  k == Cardinality({i \in 1..Len(evs) :
                                       evs[i].timestamp <= e.v.timestamp})
              IN  [err |-> "",
                   events |-> IF e.some
                              THEN SubSeq(evs, 1, k) \o <<e.v>>
                                   \o SubSeq(evs, k + 1, Len(evs))
                              ELSE evs]
         ELSE [err |-> "", events |-> evs]

\* One iteration of the loop over reader.lines(), on line number n:
\* `line?` returns the read error of a line that is not valid UTF-8, a blank
\* line is skipped, a line that decodes pushes its event if it has one, and
\* a line that does not decode is skipped.  err = "" means the loop goes on.
ParseLine(evs, line, n) ==
    IF ~line.utf8 THEN [err |-> "InvalidData", events |-> evs]
    ELSE IF line.blank THEN [err |-> "", events |-> evs]
    ELSE LET d == FromStr(line) IN
         IF d.ok
         THEN LET e == convert_to_display_event(d.entry, n) IN
              [err |-> "", events |-> IF e.some THEN Append(evs, e.v) ELSE evs]
         ELSE [err |-> "", events |-> evs]

RECURSIVE ParseFrom(_, _, _)
\* the loop of parse_session_file from line n on
ParseFrom(lines, n, evs) ==
    IF n > Len(lines) THEN Ok(evs)
    ELSE LET r == ParseLine(evs, lines[n], n) IN
         IF r.err /= "" THEN Err(r.err) ELSE ParseFrom(lines, n + 1, r.events)

\* parse_session_file(path) as one call
parse_session_file(f) ==
    IF ~f.exists THEN Err("NotFound") ELSE ParseFrom(f.lines, 1, <<>>)

\* the sequences over S of length at most n
SeqsUpTo(S, n) == UNION {[1..k -> S] : k \in 0..n}

\* the lines the files of SpecParse are made of
ParseLines ==
    {BadUtf8Line, BlankLine, GarbageLine, UnknownTypeLine, MissingFieldLine,
     SummaryLine}
    \cup {UserTextLine(ts, W_fox) : ts \in 1..MaxTs}
    \cup {AssistantLine(ts, <<Block("text", W_dog)>>) : ts \in 1..MaxTs}
    \cup {SystemLine(ts, NoLevel, W_cat) : ts \in 1..MaxTs}

ParseFiles ==
    {[exists |-> FALSE, lines |-> <<>>]}
    \cup {[exists |-> TRUE, lines |-> l] : l \in SeqsUpTo(ParseLines, MaxLines)}

\* the variables parse_session_file does not use
SearchIdle ==
    /\ query = <<>>
    /\ documents = <<>>
    /\ bm25 = <<>>
    /\ doc_idx = 0
    /\ scored_matches = <<>>
    /\ score_prev = <<>>
    /\ score_last = <<>>

InitParse ==
    /\ pc = "open"
    /\ file \in ParseFiles
    /\ pos = 0
    /\ events = <<>>
    /\ result = Running
    /\ SearchIdle
    /\ TextIdle

\* File::open(path)?
ParseOpen ==
    /\ pc = "open"
    /\ IF file.exists
       THEN pc' = "loop" /\ result' = result
       ELSE pc' = "done" /\ result' = Err("NotFound")
    /\ UNCHANGED <<file, pos, events, query, documents, bm25, doc_idx,
                   scored_matches, score_prev, score_last>>
    /\ UNCHANGED <<textVars, otherVars>>

\* one iteration of `for line in reader.lines()`
ParseLoopStep ==
    /\ pc = "loop"
    /\ pos < Len(file.lines)
    /\ LET r == ParseLine(events, file.lines[pos + 1], pos + 1) IN
       IF r.err /= ""
       THEN /\ pc' = "done"
            /\ result' = Err(r.err)
            /\ UNCHANGED <<pos, events>>
       ELSE /\ pos' = pos + 1
            /\ events' = r.events
            /\ UNCHANGED <<pc, result>>
    /\ UNCHANGED <<file, query, documents, bm25, doc_idx, scored_matches,
                   score_prev, score_last>>
    /\ UNCHANGED <<textVars, otherVars>>

\* the loop is over: Ok(events)
ParseReturn ==
    /\ pc = "loop"
    /\ pos = Len(file.lines)
    /\ pc' = "done"
    /\ result' = Ok(events)
    /\ UNCHANGED <<file, pos, events, query, documents, bm25, doc_idx,
                   scored_matches, score_prev, score_last>>
    /\ UNCHANGED <<textVars, otherVars>>

NextParse == ParseOpen \/ ParseLoopStep \/ ParseReturn

SpecParse == InitParse /\ [][NextParse]_vars

\* the longest block list of a record of SpecConvert
MaxBlocks == 3

\* the content blocks the Assistant records of SpecConvert are made of
AssistantBlocks ==
    {Block("text", W_fox), Block("text", W_dog), Block("text", <<>>),
     Block("thinking", W_lazy), Block("thinking", W_cat),
     ToolUseBlockWith(W_DOG, <<"1">>, W_quick),
     ToolUseBlockWith(W_cat, <<"2">>, W_brown),
     Block("tool_result", W_hunts), MalformedBlock("thinking", W_the)}

\* the content blocks the User records of SpecConvert are made of
UserBlocks ==
    {Block("text", W_fox), Block("text", <<>>), Block("tool_result", W_dog),
     Block("image", <<>>), Block("thinking", W_lazy),
     MalformedBlock("tool_result", W_hunts)}

\* the records SpecConvert converts
ConvertLines ==
    {AssistantLine(1, bs) : bs \in SeqsUpTo(AssistantBlocks, MaxBlocks)}
    \cup {UserBlocksLine(1, bs) : bs \in SeqsUpTo(UserBlocks, MaxBlocks)}
    \cup {UserTextLine(1, t) : t \in {<<>>, W_fox, W_fox \o NL \o W_dog}}

\* a session file of one record
InitConvert ==
    /\ pc = "open"
    /\ file \in {[exists |-> TRUE, lines |-> <<l>>] : l \in ConvertLines}
    /\ pos = 0
    /\ events = <<>>
    /\ result = Running
    /\ SearchIdle
    /\ TextIdle

SpecConvert == InitConvert /\ [][NextParse]_vars

----------------------------------------------------------------------------
(* bm25.rs: tokenize, applied to a text and then to its own output *)

\* the longest text of SpecTokenize and SpecSnippet, in characters
MaxTextLen == 3

\* the characters the texts of SpecTokenize are made of
TokenizeChars == {"A", "b", " ", "\n", "I_dot", "Sigma", "Kelvin"}

InitTokenize ==
    /\ pc = "tokenize"
    /\ text_in \in SeqsUpTo(TokenizeChars, MaxTextLen)
    /\ tokenized = <<>>
    /\ retokenized = <<>>
    /\ query_words = <<>>
    /\ context_chars = 0
    /\ best_pos = [some |-> FALSE, v |-> 0]
    /\ start = 0
    /\ end = 0
    /\ snippet = <<>>
    /\ file = [exists |-> FALSE, lines |-> <<>>]
    /\ pos = 0
    /\ events = <<>>
    /\ result = Running
    /\ SearchIdle
    /\ HlIdle
    /\ NameIdle
    /\ FindIdle
    /\ TotalIdle

\* tokenize(text)
TokenizeText ==
    /\ pc = "tokenize"
    /\ tokenized' = tokenize(text_in)
    /\ pc' = "rejoin"
    /\ UNCHANGED <<text_in, retokenized, query_words, context_chars, best_pos,
                   start, end, snippet>>
    /\ UNCHANGED <<coreVarsButPc, otherVars>>

\* tokenize(&tokens.join(" "))
TokenizeRejoined ==
    /\ pc = "rejoin"
    /\ retokenized' = tokenize(JoinWith(tokenized, SP))
    /\ pc' = "done"
    /\ UNCHANGED <<text_in, tokenized, query_words, context_chars, best_pos,
                   start, end, snippet>>
    /\ UNCHANGED <<coreVarsButPc, otherVars>>

NextTokenize == TokenizeText \/ TokenizeRejoined

SpecTokenize == InitTokenize /\ [][NextTokenize]_vars

----------------------------------------------------------------------------
(* main.rs: extract_snippet_with_words.  Offsets are byte offsets into the  *)
(* UTF-8 encoding of a text.                                                *)

\* the largest context_chars of SpecSnippet; the caller in
\* search_in_session passes 100, and the texts of the model are as much
\* shorter so that the window is cut inside the text
MaxContext == 2

\* the number of bytes of the UTF-8 encoding of a character
Utf8Len(c) ==
    IF c \in {"Kelvin", "Han"} THEN 3
    ELSE IF c \in {"I_dot", "dot_above", "E_acute", "e_acute", "Sigma", "sigma",
                   "final_sigma"} THEN 2
    ELSE 1

\* str::as_bytes, each byte reduced to u8::is_utf8_char_boundary: TRUE for
\* the first byte of a character, FALSE for a continuation byte
as_bytes(text) ==
    LET B[i \in 0..Len(text)] ==
            IF i = 0 THEN <<>>
            ELSE B[i - 1] \o [k \in 1..Utf8Len(text[i]) |-> k = 1]
    IN  B[Len(text)]

\* str::len
ByteLen(text) == Len(as_bytes(text))

\* str::is_char_boundary with every offset inside the text accepted
is_char_boundary_AnyOffset(text, index) == index <= Len(as_bytes(text))

\* str::is_char_boundary
is_char_boundary(text, index) ==
    IF index = 0 THEN TRUE
    ELSE IF index >= ByteLen(text) THEN index = ByteLen(text)
    ELSE as_bytes(text)[index + 1]

\* str::find: the byte offset of the first occurrence of needle, if any
find(haystack, needle) ==
    LET at == {i \in 1..(Len(haystack) + 1) :
                  /\ i + Len(needle) - 1 <= Len(haystack)
                  /\ SubSeq(haystack, i, i + Len(needle) - 1) = needle}
        first == CHOOSE i \in at : \A j \in at : i <= j
    IN  IF at = {} THEN [some |-> FALSE, v |-> 0]
        ELSE [some |-> TRUE, v |-> ByteLen(SubSeq(haystack, 1, first - 1))]

\* the loop over query_words: the smallest offset at which a lowercased
\* word occurs in lower_text
FindBest(lower_text, words) ==
    LET F[i \in 0..Len(words)] ==
            IF i = 0 THEN [some |-> FALSE, v |-> 0]
            ELSE LET p == find(lower_text, to_lowercase(words[i])) IN
                 IF p.some /\ (~F[i - 1].some \/ p.v < F[i - 1].v)
                 THEN p ELSE F[i - 1]
    IN  F[Len(words)]

\* &text[start..end], for offsets that are character boundaries
Slice(text, from, to) ==
    LET first == Cardinality({k \in 1..Len(text) :
                                 ByteLen(SubSeq(text, 1, k)) <= from}) + 1
        last == Cardinality({k \in 1..Len(text) :
                                ByteLen(SubSeq(text, 1, k)) <= to})
    IN  SubSeq(text, first, last)

\* str::trim
trim(text) ==
    LET keep == {i \in 1..Len(text) : ~IsWhitespace(text[i])}
        lo == CHOOSE i \in keep : \A j \in keep : i <= j
        hi == CHOOSE i \in keep : \A j \in keep : j <= i
    IN  IF keep = {} THEN <<>> ELSE SubSeq(text, lo, hi)

Dots == <<".", ".", ".">>

\* the characters the texts of SpecSnippet are made of
SnippetChars == {"a", " ", "I_dot", "Kelvin", "E_acute"}

\* the query words of SpecSnippet
SnippetQueries ==
    {<< <<"a">> >>, << <<"K">> >>, << <<"e_acute">> >>,
     << <<"k">>, <<"a">> >>, << <<"i", "dot_above">> >>, << <<"z">> >>}

InitSnippet ==
    /\ pc = "find"
    /\ text_in \in SeqsUpTo(SnippetChars, MaxTextLen)
    /\ query_words \in SnippetQueries
    /\ context_chars \in 0..MaxContext
    /\ best_pos = [some |-> FALSE, v |-> 0]
    /\ start = 0
    /\ end = 0
    /\ snippet = <<>>
    /\ tokenized = <<>>
    /\ retokenized = <<>>
    /\ file = [exists |-> FALSE, lines |-> <<>>]
    /\ pos = 0
    /\ events = <<>>
    /\ result = Running
    /\ SearchIdle
    /\ HlIdle
    /\ NameIdle
    /\ FindIdle
    /\ TotalIdle

\* lower_text and the loop over query_words
SnippetFind ==
    /\ pc = "find"
    /\ best_pos' = FindBest(to_lowercase(text_in), query_words)
    /\ pc' = "window"
    /\ UNCHANGED <<text_in, tokenized, retokenized, query_words,
                   context_chars, start, end, snippet>>
    /\ UNCHANGED <<coreVarsButPc, otherVars>>

\* the window around the match: pos.saturating_sub(context_chars) and
\* (pos + context_chars).min(text.len()); without a match, the beginning of
\* the text up to context_chars.min(text.len())
SnippetWindow ==
    /\ pc = "window"
    /\ IF best_pos.some
       THEN /\ start' = IF best_pos.v >= context_chars
                        THEN best_pos.v - context_chars ELSE 0
            /\ end' = IF best_pos.v + context_chars <= ByteLen(text_in)
                      THEN best_pos.v + context_chars ELSE ByteLen(text_in)
            /\ pc' = "adjust_start"
       ELSE /\ start' = 0
            /\ end' = IF context_chars <= ByteLen(text_in)
                      THEN context_chars ELSE ByteLen(text_in)
            /\ pc' = "adjust_end"
    /\ UNCHANGED <<text_in, tokenized, retokenized, query_words,
                   context_chars, best_pos, snippet>>
    /\ UNCHANGED <<coreVarsButPc, otherVars>>

\* while start > 0 && !text.is_char_boundary(start) { start -= 1 }
SnippetAdjustStart ==
    /\ pc = "adjust_start"
    /\ IF start > 0 /\ ~is_char_boundary(text_in, start)
       THEN start' = start - 1 /\ pc' = pc
       ELSE start' = start /\ pc' = "adjust_end"
    /\ UNCHANGED <<text_in, tokenized, retokenized, query_words,
                   context_chars, best_pos, end, snippet>>
    /\ UNCHANGED <<coreVarsButPc, otherVars>>

\* while end < text.len() && !text.is_char_boundary(end) { end += 1 }
SnippetAdjustEnd ==
    /\ pc = "adjust_end"
    /\ IF end < ByteLen(text_in) /\ ~is_char_boundary(text_in, end)
       THEN end' = end + 1 /\ pc' = pc
       ELSE end' = end /\ pc' = "slice"
    /\ UNCHANGED <<text_in, tokenized, retokenized, query_words,
                   context_chars, best_pos, start, snippet>>
    /\ UNCHANGED <<coreVarsButPc, otherVars>>

\* &text[start..end] (or &text[..end]), which panics unless start <= end
\* and both are character boundaries, then trim and format!
SnippetSlice ==
    /\ pc = "slice"
    /\ IF /\ start <= end
          /\ is_char_boundary(text_in, start)
          /\ is_char_boundary(text_in, end)
       THEN /\ snippet' = (IF best_pos.some THEN Dots ELSE <<>>)
                           \o trim(Slice(text_in, start, end)) \o Dots
            /\ pc' = "done"
       ELSE /\ snippet' = snippet
            /\ pc' = "panic"
    /\ UNCHANGED <<text_in, tokenized, retokenized, query_words,
                   context_chars, best_pos, start, end>>
    /\ UNCHANGED <<coreVarsButPc, otherVars>>

NextSnippet ==
    \/ SnippetFind
    \/ SnippetWindow
    \/ SnippetAdjustStart
    \/ SnippetAdjustEnd
    \/ SnippetSlice

SpecSnippet == InitSnippet /\ [][NextSnippet]_vars

----------------------------------------------------------------------------
(* main.rs: highlight_match *)

\* the longest text of SpecHighlight, in characters
MaxHighlightLen == 4

\* char::is_alphanumeric, on the characters the model's texts use
is_alphanumeric(c) ==
    \/ IsCased(c)
    \/ c \in {"Han", "0", "1", "2", "3", "4", "5", "6", "7", "8", "9"}

\* lower_text.chars().nth(n).map(|c| !c.is_alphanumeric()).unwrap_or(true):
\* n counts characters, from 0
NthNotAlphanumeric(lower_text, n) ==
    IF n < Len(lower_text) THEN ~is_alphanumeric(lower_text[n + 1]) ELSE TRUE

\* query.split_whitespace().map(|w| w.to_lowercase())
\*      .filter(|w| w.len() >= 3).collect()
HighlightWords(q) ==
    LET ws == split_whitespace(q)
        lowered == [i \in 1..Len(ws) |-> to_lowercase(ws[i])]
    IN  SelectSeq(lowered, LAMBDA w : ByteLen(w) >= 3)

\* the escape sequences `matched.on_yellow().black()` writes around the
\* matched text, with colours on
AnsiOn == <<"ESC", "[", "4", "3", ";", "3", "0", "m">>
AnsiOff == <<"ESC", "[", "0", "m">>

\* at_word_start && at_word_end of the candidate at byte_pos
AcceptCandidate(lower_text, byte_pos, word_len) ==
    /\ \/ byte_pos = 0
       \/ NthNotAlphanumeric(lower_text, byte_pos - 1)
    /\ \/ byte_pos + word_len >= ByteLen(lower_text)
       \/ NthNotAlphanumeric(lower_text, byte_pos + word_len)

\* highlighted_ranges.iter().any(|(start, end)| byte_pos < *end &&
\* byte_pos + word.len() > *start)
Overlaps(ranges, byte_pos, word_len) ==
    \E i \in 1..Len(ranges) :
        byte_pos < ranges[i].end /\ byte_pos + word_len > ranges[i].start

\* the two loops that move start down and end up to a character boundary
\* of text
AdjustDown(t, from) ==
    LET ok == {i \in 0..from : i = 0 \/ is_char_boundary(t, i)}
    IN  CHOOSE i \in ok : \A j \in ok : j <= i
AdjustUp(t, from) ==
    IF from >= ByteLen(t) THEN from
    ELSE LET ok == {i \in from..ByteLen(t) : is_char_boundary(t, i)}
         IN  CHOOSE i \in ok : \A j \in ok : i <= j

\* an element of highlighted_ranges.  byte_pos and word_len are not part of
\* the tuple: they record the candidate the range was made from.
Range(t, byte_pos, word_len) ==
    [start |-> AdjustDown(t, byte_pos),
     end |-> AdjustUp(t, byte_pos + word_len),
     byte_pos |-> byte_pos, word_len |-> word_len]

\* highlighted_ranges.sort_by(|a, b| b.0.cmp(&a.0)): stable, by descending
\* start
SortByStartDesc(ranges) ==
    LET S[i \in 0..Len(ranges)] ==
            IF i = 0 THEN <<>>
            ELSE LET r == ranges[i]
                     k == Cardinality({j \in 1..Len(S[i - 1]) :
                                          S[i - 1][j].start >= r.start})
                 IN  SubSeq(S[i - 1], 1, k) \o <<r>>
                     \o SubSeq(S[i - 1], k + 1, Len(S[i - 1]))
    IN  S[Len(ranges)]

\* the loop that applies the highlights: each range is sliced out of the
\* current result, which panics unless its ends are character boundaries
\* of result in order
ApplyHighlights(t, ranges) ==
    LET A[i \in 0..Len(ranges)] ==
            IF i = 0 THEN [panic |-> FALSE, result |-> t]
            ELSE LET r == ranges[i]
                     res == A[i - 1].result
                 IN  IF A[i - 1].panic THEN A[i - 1]
                     ELSE IF ~(/\ r.start <= r.end
                               /\ is_char_boundary(res, r.start)
                               /\ is_char_boundary(res, r.end))
                     THEN [panic |-> TRUE, result |-> res]
                     ELSE [panic |-> FALSE,
                           result |-> Slice(res, 0, r.start) \o AnsiOn
                                      \o Slice(res, r.start, r.end) \o AnsiOff
                                      \o Slice(res, r.end, ByteLen(res))]
    IN  A[Len(ranges)]

\* the characters the texts of SpecHighlight are made of
HighlightChars == {"a", " ", "Han", "I_dot"}

\* the queries of SpecHighlight
HighlightQueries ==
    {<<"a", "a", "a">>, <<"H", "a", "n">>, <<"Han">>, <<"I_dot">>,
     <<"Han", " ", "a", "a", "a">>, <<"A", "A", "A", " ", "a", "a", "a">>}

InitHighlight ==
    /\ pc = "hl_start"
    /\ text_in \in SeqsUpTo(HighlightChars, MaxHighlightLen)
    /\ query \in HighlightQueries
    /\ HlIdle
    /\ query_words = <<>>
    /\ tokenized = <<>>
    /\ retokenized = <<>>
    /\ context_chars = 0
    /\ best_pos = [some |-> FALSE, v |-> 0]
    /\ start = 0
    /\ end = 0
    /\ snippet = <<>>
    /\ file = [exists |-> FALSE, lines |-> <<>>]
    /\ pos = 0
    /\ events = <<>>
    /\ result = Running
    /\ documents = <<>>
    /\ bm25 = <<>>
    /\ doc_idx = 0
    /\ scored_matches = <<>>
    /\ score_prev = <<>>
    /\ score_last = <<>>
    /\ NameIdle
    /\ FindIdle
    /\ TotalIdle

\* the variables highlight_match leaves alone
HighlightFrame ==
    UNCHANGED <<file, pos, events, result, query, documents, bm25, doc_idx,
                scored_matches, score_prev, score_last, text_in, tokenized,
                retokenized, context_chars, best_pos, start, end, snippet,
                nameVars, findVars, totalVars>>

\* result, lower_text, query_words and the empty highlighted_ranges
HighlightStart ==
    /\ pc = "hl_start"
    /\ highlighted' = text_in
    /\ query_words' = HighlightWords(query)
    /\ highlighted_ranges' = <<>>
    /\ word_idx' = 0
    /\ search_pos' = 0
    /\ pc' = "hl_search"
    /\ HighlightFrame

\* one evaluation of `lower_text[search_pos..].find(word)` and the body of
\* the while loop; a word without a further occurrence ends its loop
HighlightSearch ==
    /\ pc = "hl_search"
    /\ word_idx < Len(query_words)
    /\ LET lower_text == to_lowercase(text_in)
           word == query_words[word_idx + 1]
       IN  IF ~is_char_boundary(lower_text, search_pos)
           THEN /\ pc' = "panic"
                /\ UNCHANGED <<highlighted_ranges, search_pos, word_idx>>
           ELSE LET rel_pos == find(Slice(lower_text, search_pos,
                                          ByteLen(lower_text)), word)
                    byte_pos == search_pos + rel_pos.v
                IN  IF ~rel_pos.some
                    THEN /\ word_idx' = word_idx + 1
                         /\ search_pos' = 0
                         /\ UNCHANGED <<pc, highlighted_ranges>>
                    ELSE /\ highlighted_ranges' =
                              IF /\ AcceptCandidate(lower_text, byte_pos,
                                                    ByteLen(word))
                                 /\ ~Overlaps(highlighted_ranges, byte_pos,
                                              ByteLen(word))
                              THEN Append(highlighted_ranges,
                                          Range(text_in, byte_pos, ByteLen(word)))
                              ELSE highlighted_ranges
                         /\ search_pos' = byte_pos + 1
                         /\ UNCHANGED <<pc, word_idx>>
    /\ UNCHANGED <<highlighted, query_words>>
    /\ HighlightFrame

\* the sort and the loop that applies the highlights
HighlightApply ==
    /\ pc = "hl_search"
    /\ word_idx = Len(query_words)
    /\ LET sorted == SortByStartDesc(highlighted_ranges)
           applied == ApplyHighlights(highlighted, sorted)
       IN  /\ highlighted_ranges' = sorted
           /\ highlighted' = applied.result
           /\ pc' = IF applied.panic THEN "panic" ELSE "done"
    /\ UNCHANGED <<search_pos, word_idx, query_words>>
    /\ HighlightFrame

NextHighlight == HighlightStart \/ HighlightSearch \/ HighlightApply

SpecHighlight == InitHighlight /\ [][NextHighlight]_vars

----------------------------------------------------------------------------
(* session_names.rs: WordLists and SessionNameGenerator::generate.  A word  *)
(* of a list is one element of a name.                                      *)

\* the largest hash of SpecName below usize::MAX
MaxHash == 19

\* WordLists::new: the ten lists
WordLists ==
    [space |->
        <<"nebula", "quasar", "pulsar", "comet", "meteor", "asteroid",
        "galaxy", "star", "planet", "moon", "orbit", "gravity", "cosmos",
        "universe", "void", "void", "void", "void", "void", "void">>,
     food |->
        <<"sushi", "tacos", "pasta", "pizza", "burger", "sandwich", "salad",
        "soup", "curry", "ramen", "tiramisu", "cake", "cookie", "donut",
        "cupcake", "muffin", "pancake", "waffle", "fries", "nachos">>,
     animals |->
        <<"eagle", "lion", "tiger", "bear", "wolf", "fox", "deer", "bison",
        "moose", "elk", "otter", "beaver", "raccoon", "squirrel", "badger",
        "porcupine", "marmot", "groundhog", "beetle", "cricket">>,
     tech |->
        <<"processor", "memory", "storage", "network", "bandwidth", "protocol",
        "algorithm", "syntax", "debug", "compile", "runtime", "framework",
        "library", "module", "package", "dependency", "version", "release",
        "patch", "update">>,
     nature |->
        <<"mountain", "valley", "forest", "river", "stream", "lake", "ocean",
        "beach", "desert", "prairie", "canyon", "cliff", "plateau", "plain",
        "glacier", "tundra", "swamp", "marsh", "fen", "bog">>,
     mythical |->
        <<"dragon", "unicorn", "phoenix", "griffin", "centaur", "minotaur",
        "leviathan", "kraken", "gorgon", "sphinx", "cyclops", "basilisk",
        "chimera", "hydra", "medusa", "pegasus", "unicorn", "dragon",
        "phoenix", "griffin">>,
     colors |->
        <<"red", "blue", "green", "yellow", "purple", "orange", "pink",
        "brown", "black", "white", "gray", "silver", "gold", "crimson",
        "teal", "lavender", "mauve", "beige", "olive", "navy">>,
     musical |->
        <<"melody", "harmony", "rhythm", "beat", "tempo", "note", "chord",
        "scale", "symphony", "opera", "sonata", "concerto", "suite", "aria",
        "ballad", "jazz", "rock", "pop", "hiphop", "classical">>,
     literary |->
        <<"novel", "poem", "story", "chapter", "verse", "stanza", "dialogue",
        "monologue", "narrative", "plot", "character", "setting", "theme",
        "mood", "tone", "genre", "fable", "myth", "legend", "epic">>,
     historical |->
        <<"empire", "dynasty", "reign", "revolution", "war", "battle",
        "conquest", "colonization", "exploration", "discovery",
        "civilization", "kingdom", "province", "territory", "frontier",
        "epoch", "era", "age", "period", "century">>]

\* WordLists::get_list: the arms of the match, in order; the first arm that
\* names the project type is taken
ListArms ==
    <<[types |-> {"space", "astronomy", "physics", "cosmology", "rocket"},
       list |-> WordLists.space],
      [types |-> {"food", "cooking", "recipe", "baking", "culinary"},
       list |-> WordLists.food],
      [types |-> {"animals", "zoo", "wildlife", "nature", "ecology"},
       list |-> WordLists.animals],
      [types |-> {"tech", "software", "programming", "development",
                  "engineering"},
       list |-> WordLists.tech],
      [types |-> {"nature", "outdoor", "environment", "ecology", "wildlife"},
       list |-> WordLists.nature],
      [types |-> {"myth", "legend", "fantasy", "mythology", "fairy"},
       list |-> WordLists.mythical],
      [types |-> {"color", "design", "art", "painting", "visual"},
       list |-> WordLists.colors],
      [types |-> {"music", "song", "melody", "instrument", "band"},
       list |-> WordLists.musical],
      [types |-> {"literature", "writing", "novel", "poetry", "story"},
       list |-> WordLists.literary],
      [types |-> {"history", "ancient", "medieval", "modern", "period"},
       list |-> WordLists.historical]>>

get_list(ptype) ==
    LET hits == {i \in 1..Len(ListArms) : ptype \in ListArms[i].types}
    IN  IF hits = {} THEN WordLists.space
        ELSE ListArms[CHOOSE i \in hits : \A j \in hits : i <= j].list

\* A hash is [top, v]: the u64 v, or usize::MAX when top.
\* (hash as usize) % n; usize::MAX is 2^64 - 1, and the n of every list is
\* 20, for which (2^64 - 1) % 20 = 15
HashMod(h, n) == IF h.top THEN 15 % n ELSE h.v % n

\* ((hash as usize) + 1) % n: at usize::MAX the addition overflows, which
\* panics in a build with overflow checks and wraps to 0 in one without
HashPlusOneMod(h, n) == IF h.top THEN 0 ELSE (h.v + 1) % n

\* SessionNameGenerator::generate, from the hash of the session id
generate(h, ptype) ==
    LET word_list == get_list(ptype)
        first_idx == HashMod(h, Len(word_list))
        second_idx == HashPlusOneMod(h, Len(word_list))
        second == IF second_idx = first_idx
                  THEN (second_idx + 1) % Len(word_list)
                  ELSE second_idx
    IN  <<word_list[first_idx + 1], "-", word_list[second + 1]>>

\* the project types of SpecName: one of each arm, two that an earlier arm
\* shadows, and one no arm names
ProjectTypes ==
    {"space", "food", "animals", "tech", "outdoor", "myth", "color", "music",
     "literature", "history", "nature", "ecology", "unknown"}

\* the hashes of SpecName: DefaultHasher can give any u64
HashValues ==
    {[top |-> FALSE, v |-> v] : v \in 0..MaxHash} \cup {[top |-> TRUE, v |-> 0]}

InitName ==
    /\ pc = "generate"
    /\ hash \in HashValues
    /\ project_type \in ProjectTypes
    /\ overflow_checks \in BOOLEAN
    /\ session_name = <<>>
    /\ total_input = 0
    /\ total_output = 0
    /\ event_idx = 0
    /\ HlIdle
    /\ FindIdle
    /\ text_in = <<>>
    /\ tokenized = <<>>
    /\ retokenized = <<>>
    /\ query_words = <<>>
    /\ context_chars = 0
    /\ best_pos = [some |-> FALSE, v |-> 0]
    /\ start = 0
    /\ end = 0
    /\ snippet = <<>>
    /\ file = [exists |-> FALSE, lines |-> <<>>]
    /\ pos = 0
    /\ events = <<>>
    /\ result = Running
    /\ SearchIdle

\* generate(session_id, project_type)
GenerateName ==
    /\ pc = "generate"
    /\ IF hash.top /\ overflow_checks
       THEN pc' = "panic" /\ session_name' = session_name
       ELSE pc' = "done" /\ session_name' = generate(hash, project_type)
    /\ UNCHANGED <<hash, project_type, coreVarsButPc, textVars, hlVars,
                   findVars, totalVars>>

NextName == GenerateName

SpecName == InitName /\ [][NextName]_vars

----------------------------------------------------------------------------
(* main.rs: find_session_file.  A file stem is a sequence of characters     *)
(* and of whole words of the lists.                                         *)

\* the largest number of entries of claude_dir
MaxDirs == 2

\* str::starts_with
starts_with(s, prefix) ==
    Len(prefix) <= Len(s) /\ SubSeq(s, 1, Len(prefix)) = prefix

\* a session file: its stem and the hash DefaultHasher gives the stem
SessionFile(stem, h) == [stem |-> stem, hash |-> [top |-> FALSE, v |-> h]]

\* an entry of claude_dir: a project directory with its files in read_dir
\* order, a directory that cannot be read, or an entry that is no directory
ProjectDir(ptype, files) ==
    [is_dir |-> TRUE, readable |-> TRUE, name |-> ptype, files |-> files]

\* the session ids find_session_file is asked for
SessionIds == {<<"void", "-", "void">>, <<"a", "b">>, <<"z">>}

\* the entries the claude_dir of SpecFind is made of
DirEntries ==
    LET byName == SessionFile(<<"d", "e">>, 14)
        byId == SessionFile(<<"void", "-", "void", "-", "x">>, 0)
        other == SessionFile(<<"a", "b", "c">>, 1)
    IN  {ProjectDir("space", <<byName>>),
         ProjectDir("space", <<byId>>),
         ProjectDir("unknown", <<byName, byId>>),
         ProjectDir("food", <<other, byName>>),
         ProjectDir("tech", <<>>),
         [ProjectDir("space", <<>>) EXCEPT !.readable = FALSE],
         [ProjectDir("space", <<>>) EXCEPT !.is_dir = FALSE]}

\* Result<Option<PathBuf>>: the path is the entry and the file in it
NoPath == [tag |-> "Running", some |-> FALSE, dir |-> 0, file |-> 0]
FoundPath(d, f) == [tag |-> "Ok", some |-> TRUE, dir |-> d, file |-> f]
FoundNone == [tag |-> "Ok", some |-> FALSE, dir |-> 0, file |-> 0]
FoundErr == [tag |-> "Err", some |-> FALSE, dir |-> 0, file |-> 0]

\* the first loop over a directory: the files whose stem starts with the id
IdMatches(entry, id) ==
    {f \in 1..Len(entry.files) : starts_with(entry.files[f].stem, id)}

\* the second loop: the files whose generated name is the id
NameMatches(entry, id) ==
    {f \in 1..Len(entry.files) :
        generate(entry.files[f].hash, entry.name) = id}

InitFind ==
    /\ pc = "find_open"
    /\ claude_dir \in
           {[readable |-> FALSE, entries |-> <<>>]}
           \cup {[readable |-> TRUE, entries |-> es] :
                    es \in SeqsUpTo(DirEntries, MaxDirs)}
    /\ session_id \in SessionIds
    /\ dir_idx = 0
    /\ found = NoPath
    /\ HlIdle
    /\ NameIdle
    /\ TotalIdle
    /\ text_in = <<>>
    /\ tokenized = <<>>
    /\ retokenized = <<>>
    /\ query_words = <<>>
    /\ context_chars = 0
    /\ best_pos = [some |-> FALSE, v |-> 0]
    /\ start = 0
    /\ end = 0
    /\ snippet = <<>>
    /\ file = [exists |-> FALSE, lines |-> <<>>]
    /\ pos = 0
    /\ events = <<>>
    /\ result = Running
    /\ SearchIdle

\* the variables find_session_file leaves alone
FindFrame ==
    UNCHANGED <<claude_dir, session_id, coreVarsButPc, textVars, hlVars,
                nameVars, totalVars>>

\* fs::read_dir(claude_dir)?
FindOpen ==
    /\ pc = "find_open"
    /\ IF claude_dir.readable
       THEN pc' = "find_dir" /\ found' = found
       ELSE pc' = "done" /\ found' = FoundErr
    /\ UNCHANGED dir_idx
    /\ FindFrame

\* one iteration of the loop over the entries of claude_dir: the loop over
\* the files by id, then the loop over the files by generated name
FindVisit ==
    /\ pc = "find_dir"
    /\ dir_idx < Len(claude_dir.entries)
    /\ LET d == dir_idx + 1
           entry == claude_dir.entries[d]
           ids == IdMatches(entry, session_id)
           names == NameMatches(entry, session_id)
       IN  IF ~entry.is_dir
           THEN dir_idx' = d /\ UNCHANGED <<pc, found>>
           ELSE IF ~entry.readable
           THEN pc' = "done" /\ found' = FoundErr /\ UNCHANGED dir_idx
           ELSE IF ids /= {}
           THEN /\ pc' = "done"
                /\ found' = FoundPath(d, Least(ids))
                /\ UNCHANGED dir_idx
           ELSE IF names /= {}
           THEN /\ pc' = "done"
                /\ found' = FoundPath(d, Least(names))
                /\ UNCHANGED dir_idx
           ELSE dir_idx' = d /\ UNCHANGED <<pc, found>>
    /\ FindFrame

\* Ok(None)
FindReturnNone ==
    /\ pc = "find_dir"
    /\ dir_idx = Len(claude_dir.entries)
    /\ pc' = "done"
    /\ found' = FoundNone
    /\ UNCHANGED dir_idx
    /\ FindFrame

NextFind == FindOpen \/ FindVisit \/ FindReturnNone

SpecFind == InitFind /\ [][NextFind]_vars

----------------------------------------------------------------------------
(* display.rs print_session_header and main.rs export_command: the token    *)
(* totals.  Token counts are u32; the model counts them in units of 2^30,   *)
(* so that 4 units are 2^32.                                                *)

\* the largest number of events of SpecTotals
MaxEvents == 3

\* 2^32, the modulus of u32, in units
U32Units == 4

\* TokenUsage { input_tokens, output_tokens, .. }, in units
Usage(input_tokens, output_tokens) ==
    [some |-> TRUE, input_tokens |-> input_tokens,
     output_tokens |-> output_tokens]

\* u32 `+=`: the sum, which beyond u32::MAX panics in a build with overflow
\* checks and wraps in one without
AddU32(a, b) ==
    [overflow |-> a + b >= U32Units, v |-> (a + b) % U32Units]

\* the events SpecTotals adds up
TotalEvents ==
    {DisplayEvent(1, "assistant", <<>>, NoTool, None, Usage(1, 0),
                  Some(<<"m">>), 0),
     DisplayEvent(1, "assistant", <<>>, NoTool, None, Usage(2, 1),
                  Some(<<"m">>), 0),
     DisplayEvent(1, "assistant", <<>>, NoTool, None, Usage(0, 3),
                  Some(<<"m">>), 0),
     DisplayEvent(1, "assistant", <<>>, NoTool, None, NoUsage,
                  Some(<<"m">>), 0),
     DisplayEvent(1, "user", W_fox, NoTool, None, NoUsage, None, 0)}

InitTotals ==
    /\ pc = "sum"
    /\ events \in SeqsUpTo(TotalEvents, MaxEvents)
    /\ overflow_checks \in BOOLEAN
    /\ total_input = 0
    /\ total_output = 0
    /\ event_idx = 0
    /\ HlIdle
    /\ NameIdle
    /\ FindIdle
    /\ text_in = <<>>
    /\ tokenized = <<>>
    /\ retokenized = <<>>
    /\ query_words = <<>>
    /\ context_chars = 0
    /\ best_pos = [some |-> FALSE, v |-> 0]
    /\ start = 0
    /\ end = 0
    /\ snippet = <<>>
    /\ file = [exists |-> FALSE, lines |-> <<>>]
    /\ pos = 0
    /\ result = Running
    /\ SearchIdle

\* the variables the loop leaves alone
TotalsFrame ==
    UNCHANGED <<file, pos, events, result, query, documents, bm25, doc_idx,
                scored_matches, score_prev, score_last, overflow_checks,
                textVars, hlVars, nameVars, findVars>>

\* one iteration of `for event in events`
TotalsAdd ==
    /\ pc = "sum"
    /\ event_idx < Len(events)
    /\ LET event == events[event_idx + 1]
           ti == AddU32(total_input, event.usage.input_tokens)
           to == AddU32(total_output, event.usage.output_tokens)
       IN  IF event.role = "assistant" /\ event.usage.some
           THEN IF ti.overflow /\ overflow_checks
                THEN /\ pc' = "panic"
                     /\ UNCHANGED <<total_input, total_output, event_idx>>
                ELSE IF to.overflow /\ overflow_checks
                THEN /\ pc' = "panic"
                     /\ total_input' = ti.v
                     /\ UNCHANGED <<total_output, event_idx>>
                ELSE /\ total_input' = ti.v
                     /\ total_output' = to.v
                     /\ event_idx' = event_idx + 1
                     /\ pc' = pc
           ELSE /\ event_idx' = event_idx + 1
                /\ UNCHANGED <<pc, total_input, total_output>>
    /\ TotalsFrame

\* the loop is over: the totals are shown
TotalsShow ==
    /\ pc = "sum"
    /\ event_idx = Len(events)
    /\ pc' = "done"
    /\ UNCHANGED <<total_input, total_output, event_idx>>
    /\ TotalsFrame

NextTotals == TotalsAdd \/ TotalsShow

SpecTotals == InitTotals /\ [][NextTotals]_vars

----------------------------------------------------------------------------
(* f64 *)

Fin(v) == [k |-> "fin", v |-> v]
NaN == [k |-> "nan", v |-> 0]

\* a + b
FAdd(a, b) == IF a.k = "nan" \/ b.k = "nan" THEN NaN ELSE Fin(a.v + b.v)

\* a * b of two values in thousandths, in millionths
FMul(a, b) == IF a.k = "nan" \/ b.k = "nan" THEN NaN ELSE Fin(a.v * b.v)

\* a > 0.0: false of NaN
FPositive(a) == a.k = "fin" /\ a.v > 0

\* a.partial_cmp(&b): None when either is NaN
PartialCmp(a, b) ==
    IF a.k = "nan" \/ b.k = "nan" THEN "None"
    ELSE IF a.v < b.v THEN "Less"
    ELSE IF a.v > b.v THEN "Greater"
    ELSE "Equal"

\* 1000 * ln(n), rounded, for n = 1..25
LnTable == <<0, 693, 1099, 1386, 1609, 1792, 1946, 2079, 2197, 2303, 2398,
             2485, 2565, 2639, 2708, 2773, 2833, 2890, 2944, 2996, 3045,
             3091, 3135, 3178, 3219>>

----------------------------------------------------------------------------
(* bm25.rs *)

\* the parameters search_in_session passes: k1 = 1.2 in tenths, b = 0.75 in
\* hundredths
K1Tenths == 12
BHundredths == 75

\* doc_frequencies.get(term).unwrap_or(&0)
DfGet(df, term) == IF term \in DOMAIN df THEN df[term] ELSE 0

\* the inner loop of BM25::new without `seen`: every occurrence of a token
\* adds 1 to its document frequency
CountDoc_EveryOccurrence(tokens, i, seen, df) ==
    LET F[j \in 0..Len(tokens)] ==
            IF j = 0 THEN df
            ELSE [t \in DOMAIN F[j - 1] \cup {tokens[j]} |->
                     IF t = tokens[j] THEN DfGet(F[j - 1], t) + 1
                     ELSE F[j - 1][t]]
    IN  F[Len(tokens)]

RECURSIVE CountDoc(_, _, _, _)
\* the inner loop of BM25::new over a document's tokens: a token not yet
\* `seen` in this document adds 1 to its document frequency
CountDoc(tokens, i, seen, df) ==
    IF i > Len(tokens) THEN df
    ELSE LET tok == tokens[i] IN
         IF tok \in seen
         THEN CountDoc(tokens, i + 1, seen, df)
         ELSE CountDoc(tokens, i + 1, seen \cup {tok},
                       [t \in DOMAIN df \cup {tok} |->
                           IF t = tok THEN DfGet(df, tok) + 1 ELSE df[t]])

\* the outer loop of BM25::new with the distinct tokens of a document added
\* to total_length in place of all its tokens
NewLoop_DistinctTokens(docs, i, acc) ==
    LET F[j \in 0..Len(docs)] ==
            IF j = 0 THEN acc
            ELSE LET tokens == tokenize(docs[j]) IN
                 [total_length |->
                      F[j - 1].total_length
                      + Cardinality({tokens[k] : k \in 1..Len(tokens)}),
                  doc_frequencies |->
                      CountDoc(tokens, 1, {}, F[j - 1].doc_frequencies)]
    IN  F[Len(docs)]

RECURSIVE NewLoop(_, _, _)
\* the outer loop of BM25::new; acc is [total_length, doc_frequencies]
NewLoop(docs, i, acc) ==
    IF i > Len(docs) THEN acc
    ELSE LET tokens == tokenize(docs[i]) IN
         NewLoop(docs, i + 1,
                 [total_length |-> acc.total_length + Len(tokens),
                  doc_frequencies |-> CountDoc(tokens, 1, {}, acc.doc_frequencies)])

\* total_length / doc_count without the doc_count > 0 guard: 0/0 is NaN
AvgDocLength_Unguarded(total_length, doc_count) ==
    IF doc_count > 0
    THEN [k |-> "fin", n |-> total_length, d |-> doc_count]
    ELSE [k |-> "nan", n |-> 0, d |-> 1]

\* avg_doc_length: the quotient total_length / doc_count, kept as the
\* fraction n / d, and 0.0 when there is no document
AvgDocLength(total_length, doc_count) ==
    IF doc_count > 0
    THEN [k |-> "fin", n |-> total_length, d |-> doc_count]
    ELSE [k |-> "fin", n |-> 0, d |-> 1]

\* BM25::new with doc_count counting the documents before the last one
BM25_new_CountBeforeLast(docs, k1, b) ==
    LET acc == NewLoop(docs, 1, [total_length |-> 0, doc_frequencies |-> <<>>])
    IN  [avg_doc_length |-> AvgDocLength(acc.total_length, Len(docs)),
         doc_count |-> IF Len(docs) = 0 THEN 0 ELSE Len(docs) - 1,
         doc_frequencies |-> acc.doc_frequencies,
         k1 |-> k1,
         b |-> b]

\* BM25::new(documents, k1, b)
BM25_new(docs, k1, b) ==
    LET acc == NewLoop(docs, 1, [total_length |-> 0, doc_frequencies |-> <<>>])
    IN  [avg_doc_length |-> AvgDocLength(acc.total_length, Len(docs)),
         doc_count |-> Len(docs),
         doc_frequencies |-> acc.doc_frequencies,
         k1 |-> k1,
         b |-> b]

\* term_freqs.get(term): the number of occurrences of term in doc_terms
TermFreq(doc_terms, term) ==
    Cardinality({i \in 1..Len(doc_terms) : doc_terms[i] = term})

\* the idf with 1 added inside the logarithm
Idf_PlusOne(doc_count, df) ==
    Fin(LnTable[2 * doc_count + 2] - LnTable[2 * df + 1])

\* the idf with the fraction upside down
Idf_Inverted(doc_count, df) ==
    IF 2 * doc_count - 2 * df + 1 < 0
    THEN NaN
    ELSE Fin(LnTable[2 * df + 1] - LnTable[2 * doc_count - 2 * df + 1])

\* idf = ((doc_count - df + 0.5) / (df + 0.5)).ln(), in thousandths: the
\* argument is (2 doc_count - 2 df + 1) / (2 df + 1), and the logarithm of a
\* negative number is NaN
Idf(doc_count, df) ==
    IF 2 * doc_count - 2 * df + 1 < 0
    THEN NaN
    ELSE Fin(LnTable[2 * doc_count - 2 * df + 1] - LnTable[2 * df + 1])

\* the tf component with avg / doc_length in place of doc_length / avg
NormalizedTf_InvertedLength(tf, doc_length, avg, k1, b) ==
    IF avg.k = "nan" \/ doc_length = 0 THEN NaN
    ELSE Fin((tf * (k1 + 10) * 100 * doc_length * avg.d * 1000)
             \div (1000 * tf * doc_length * avg.d
                   + k1 * ((100 - b) * doc_length * avg.d + b * avg.n)))

\* normalized_tf = tf (k1 + 1) / (tf + k1 (1 - b + b (doc_length / avg))),
\* in thousandths.  doc_length / avg is NaN for 0/0 and for a NaN avg, and
\* infinite for a positive doc_length over avg = 0; an infinite quotient
\* makes the denominator infinite and the result 0.
NormalizedTf(tf, doc_length, avg, k1, b) ==
    IF avg.k = "nan" THEN NaN
    ELSE IF avg.n = 0
    THEN IF doc_length = 0 \/ b = 0 \/ k1 = 0 THEN NaN ELSE Fin(0)
    ELSE Fin((tf * (k1 + 10) * 100 * avg.n * 1000)
             \div (1000 * tf * avg.n
                   + k1 * ((100 - b) * avg.n + b * doc_length * avg.d)))

\* the loop of BM25::score with the idf of a query term the document does
\* not have taken off the score
ScoreLoop_PenaliseAbsent(bm, query_terms, doc_terms, i, sc) ==
    LET F[j \in 0..Len(query_terms)] ==
            IF j = 0 THEN sc
            ELSE LET term == query_terms[j]
                     tf == TermFreq(doc_terms, term)
                     idf == Idf(bm.doc_count, DfGet(bm.doc_frequencies, term))
                 IN  IF tf > 0
                     THEN FAdd(F[j - 1],
                               FMul(idf, NormalizedTf(tf, Len(doc_terms),
                                        bm.avg_doc_length, bm.k1, bm.b)))
                     ELSE FAdd(F[j - 1], FMul(idf, Fin(0 - 1000)))
    IN  F[Len(query_terms)]

RECURSIVE ScoreLoop(_, _, _, _, _)
\* the loop of BM25::score over the query terms: a term the document has
\* adds idf * normalized_tf to the score
ScoreLoop(bm, query_terms, doc_terms, i, sc) ==
    IF i > Len(query_terms) THEN sc
    ELSE LET term == query_terms[i]
             tf == TermFreq(doc_terms, term)
         IN  IF tf > 0
             THEN ScoreLoop(bm, query_terms, doc_terms, i + 1,
                      FAdd(sc, FMul(Idf(bm.doc_count, DfGet(bm.doc_frequencies, term)),
                                    NormalizedTf(tf, Len(doc_terms),
                                                 bm.avg_doc_length, bm.k1, bm.b))))
             ELSE ScoreLoop(bm, query_terms, doc_terms, i + 1, sc)

\* BM25::score(&self, query, document), in millionths
BM25_score(bm, q, document) ==
    ScoreLoop(bm, tokenize(q), tokenize(document), 1, Fin(0))

----------------------------------------------------------------------------
(* SpecScore: BM25::new over a corpus, then calls of BM25::score *)

\* the documents SpecScore indexes and scores
ScoreTexts ==
    {<<>>,
     W_fox,
     JoinWith(<<W_Fox, W_dog>>, SP),
     JoinWith(<<W_fox, W_fox>>, SP),
     JoinWith(<<W_the, W_lazy, W_dog>>, SP),
     W_cat}

\* the queries SpecScore scores them against
ScoreQueries ==
    {<<>>, W_fox, W_DOG, JoinWith(<<W_fox, W_dog>>, SP), W_cat}

NoCall == [called |-> FALSE, document |-> <<>>, score |-> Fin(0)]
NoIndex == [avg_doc_length |-> AvgDocLength(0, 0), doc_count |-> 0,
            doc_frequencies |-> <<>>, k1 |-> 0, b |-> 0]

InitScore ==
    /\ pc = "new"
    /\ documents \in SeqsUpTo(ScoreTexts, MaxCorpus)
    /\ query \in ScoreQueries
    /\ bm25 = NoIndex
    /\ score_prev = NoCall
    /\ score_last = NoCall
    /\ file = [exists |-> FALSE, lines |-> <<>>]
    /\ pos = 0
    /\ events = <<>>
    /\ result = Running
    /\ doc_idx = 0
    /\ scored_matches = <<>>
    /\ TextIdle

\* let bm25 = BM25::new(&docs, 1.2, 0.75)
ScoreNew ==
    /\ pc = "new"
    /\ bm25' = BM25_new(documents, K1Tenths, BHundredths)
    /\ pc' = "ready"
    /\ UNCHANGED <<file, pos, events, result, query, documents, doc_idx,
                   scored_matches, score_prev, score_last>>
    /\ UNCHANGED <<textVars, otherVars>>

\* bm25.score(query, document) on one of the documents; the two latest calls
\* are kept
ScoreCall ==
    /\ pc = "ready"
    /\ \E d \in ScoreTexts :
          /\ score_last' = [called |-> TRUE, document |-> d,
                            score |-> BM25_score(bm25, query, d)]
          /\ score_prev' = score_last
    /\ UNCHANGED <<pc, file, pos, events, result, query, documents, bm25,
                   doc_idx, scored_matches>>
    /\ UNCHANGED <<textVars, otherVars>>

NextScore == ScoreNew \/ ScoreCall

SpecScore == InitScore /\ [][NextScore]_vars

----------------------------------------------------------------------------
(* main.rs: search_in_session *)

\* "\n[Tool: " and "]" of format!("\n[Tool: {}]", tool_info.name)
ToolMarkerOpen == <<"\n", "[", "T", "o", "o", "l", ":", " ">>
ToolMarkerClose == <<"]">>

\* search_content: the event's content, then its thinking and its tool name
\* marker when it has them
SearchContent(event) ==
    event.content
    \o (IF event.thinking.some THEN NL \o event.thinking.v ELSE <<>>)
    \o (IF event.tool_info.some
        THEN ToolMarkerOpen \o event.tool_info.name \o ToolMarkerClose
        ELSE <<>>)

\* the test `score >= 0.0` in place of `score > 0.0`
IsMatch_NonNegative(score) == score.k = "fin" /\ score.v >= 0

\* if score > 0.0
IsMatch(score) == FPositive(score)

\* struct SearchMatch; the snippet is left out, and `event` is not a field of
\* the struct: it records the index of the event the match was made from
SearchMatch(event, idx, score) ==
    [timestamp |-> event.timestamp, role |-> event.role, score |-> score,
     event |-> idx]

\* the sort with an element placed before the elements that compare equal
SortByScore_Unstable(ms) ==
    LET Before(j, i) ==
            \/ ms[j].score.v > ms[i].score.v
            \/ ms[j].score.v = ms[i].score.v /\ j > i
        Rank(i) == Cardinality({j \in 1..Len(ms) : Before(j, i)}) + 1
    IN  [panic |-> FALSE,
         v |-> [r \in 1..Len(ms) |->
                   ms[CHOOSE i \in 1..Len(ms) : Rank(i) = r]]]

\* scored_matches.sort_by(|a, b| b.score.partial_cmp(&a.score).unwrap()):
\* a stable sort, highest score first; the unwrap panics when a comparison
\* the sort makes has no answer, and the sort of two or more elements
\* compares every element
SortByScore(ms) ==
    IF /\ Len(ms) >= 2
       /\ \E i, j \in 1..Len(ms) :
             i /= j /\ PartialCmp(ms[j].score, ms[i].score) = "None"
    THEN [panic |-> TRUE, v |-> ms]
    ELSE LET Before(j, i) ==
                 \/ PartialCmp(ms[j].score, ms[i].score) = "Greater"
                 \/ PartialCmp(ms[j].score, ms[i].score) = "Equal" /\ j < i
             Rank(i) == Cardinality({j \in 1..Len(ms) : Before(j, i)}) + 1
         IN  [panic |-> FALSE,
              v |-> [r \in 1..Len(ms) |->
                        ms[CHOOSE i \in 1..Len(ms) : Rank(i) = r]]]

\* the lines the files of SpecSearch are made of
SearchLines ==
    {UserTextLine(1, ExampleDoc1),
     UserTextLine(1, ExampleDoc2),
     UserTextLine(2, ExampleDoc3),
     AssistantLine(2, <<Block("text", W_Fox), Block("thinking", W_lazy),
                        ToolUseBlock(W_DOG, <<"1">>)>>),
     SystemLine(1, NoLevel, <<>>),
     GarbageLine}

SearchFiles ==
    {[exists |-> FALSE, lines |-> <<>>]}
    \cup {[exists |-> TRUE, lines |-> l] : l \in SeqsUpTo(SearchLines, MaxDocs)}

\* the queries of SpecSearch
SearchQueries ==
    {ExampleQuery,
     JoinWith(<<W_lazy, W_hunts>>, SP),
     JoinWith(<<W_quick, W_DOG>>, SP),
     SP,
     W_the}

InitSearch ==
    /\ pc = "parse"
    /\ file \in SearchFiles
    /\ query \in SearchQueries
    /\ pos = 0
    /\ events = <<>>
    /\ result = Running
    /\ documents = <<>>
    /\ bm25 = NoIndex
    /\ doc_idx = 0
    /\ scored_matches = <<>>
    /\ score_prev = NoCall
    /\ score_last = NoCall
    /\ TextIdle

\* let events = parser_v2::parse_session_file(path)?
SearchParse ==
    /\ pc = "parse"
    /\ LET r == parse_session_file(file) IN
       IF r.tag = "Err"
       THEN pc' = "done" /\ result' = r /\ events' = events
       ELSE pc' = "query" /\ result' = result /\ events' = r.v
    /\ UNCHANGED <<file, pos, query, documents, bm25, doc_idx, scored_matches,
                   score_prev, score_last>>
    /\ UNCHANGED <<textVars, otherVars>>

\* if query.trim().is_empty() { return Ok(vec![]) }
SearchCheckQuery ==
    /\ pc = "query"
    /\ IF TrimIsEmpty(query)
       THEN pc' = "done" /\ result' = Ok(<<>>)
       ELSE pc' = "corpus" /\ result' = result
    /\ UNCHANGED <<file, pos, events, query, documents, bm25, doc_idx,
                   scored_matches, score_prev, score_last>>
    /\ UNCHANGED <<textVars, otherVars>>

\* the loop that builds `documents`, one per event, and BM25::new over them
SearchBuildIndex ==
    /\ pc = "corpus"
    /\ documents' = [i \in 1..Len(events) |-> SearchContent(events[i])]
    /\ bm25' = BM25_new(documents', K1Tenths, BHundredths)
    /\ pc' = "score"
    /\ UNCHANGED <<file, pos, events, result, query, doc_idx, scored_matches,
                   score_prev, score_last>>
    /\ UNCHANGED <<textVars, otherVars>>

\* one iteration of the scoring loop: the document is scored, and pushed as
\* a match when the score is positive
SearchScoreStep ==
    /\ pc = "score"
    /\ doc_idx < Len(documents)
    /\ LET score == BM25_score(bm25, query, documents[doc_idx + 1]) IN
       scored_matches' =
           IF IsMatch(score)
           THEN Append(scored_matches,
                       SearchMatch(events[doc_idx + 1], doc_idx + 1, score))
           ELSE scored_matches
    /\ doc_idx' = doc_idx + 1
    /\ UNCHANGED <<pc, file, pos, events, result, query, documents, bm25,
                   score_prev, score_last>>
    /\ UNCHANGED <<textVars, otherVars>>

\* the sort after the loop, and Ok(scored_matches)
SearchSortReturn ==
    /\ pc = "score"
    /\ doc_idx = Len(documents)
    /\ LET sorted == SortByScore(scored_matches) IN
       IF sorted.panic
       THEN result' = [tag |-> "Panic", err |-> "", v |-> <<>>]
            /\ scored_matches' = scored_matches
       ELSE result' = Ok(sorted.v) /\ scored_matches' = sorted.v
    /\ pc' = "done"
    /\ UNCHANGED <<file, pos, events, query, documents, bm25, doc_idx,
                   score_prev, score_last>>
    /\ UNCHANGED <<textVars, otherVars>>

NextSearch ==
    \/ SearchParse
    \/ SearchCheckQuery
    \/ SearchBuildIndex
    \/ SearchScoreStep
    \/ SearchSortReturn

SpecSearch == InitSearch /\ [][NextSearch]_vars

----------------------------------------------------------------------------
(* Claims about parse_session_file, checked under SpecParse *)

\* the line is read, is not blank, and does not decode
IsMalformedLine(l) == l.utf8 /\ ~l.blank /\ ~FromStr(l).ok

\* the line is read and decodes to a User, Assistant or System record
IsRecordLine(l) ==
    /\ l.utf8
    /\ ~l.blank
    /\ FromStr(l).ok
    /\ l.type \in {"user", "assistant", "system"}

\* the numbers of the lines among the first n that decode to a record
RecordLines(n) == {i \in 1..n : IsRecordLine(file.lines[i])}

\* C1: a line that fails to decode is dropped and the loop goes on.  Every
\* line consumed so far that decodes to a User, Assistant or System record
\* has its event in `events`, whatever malformed lines stand before or after
\* it; the loop never ends at a line that fails to decode (it ends at the end
\* of the file, or at a line that cannot be read); and a returned sequence is
\* `events` after the last line.
C1_MalformedLineDropped ==
    /\ \A i \in RecordLines(pos) :
          \E k \in 1..Len(events) :
             events[k].line = i /\ events[k].timestamp = file.lines[i].ts
    /\ (pc = "done" /\ result.tag = "Ok") =>
          (pos = Len(file.lines) /\ result.v = events)
    /\ (pc = "done" /\ result.tag = "Err" /\ file.exists) =>
          (pos < Len(file.lines) /\ ~IsMalformedLine(file.lines[pos + 1]))

\* a returned sequence with the events of the lines before and after a
\* malformed line
C1_Witness ==
    /\ pc = "done"
    /\ result.tag = "Ok"
    /\ Len(file.lines) = 3
    /\ IsRecordLine(file.lines[1])
    /\ IsMalformedLine(file.lines[2])
    /\ IsRecordLine(file.lines[3])
    /\ Len(result.v) = 2

\* C2: parse_session_file returns an error only when the file cannot be
\* opened; for a file that opens, no content of a line makes it return an
\* error.
C2_ErrorOnlyWhenNotOpened ==
    (pc = "done" /\ file.exists) => result.tag = "Ok"

\* C3: the events are in one-to-one correspondence with the lines that
\* decoded to a non-Summary record: as many events as such lines, every
\* event made from such a line, every such line the source of exactly one
\* event; Summary, blank and undecodable lines are the source of none.
C3_EventsMatchRecordLines ==
    /\ Len(events) = Cardinality(RecordLines(pos))
    /\ \A k \in 1..Len(events) : events[k].line \in RecordLines(pos)
    /\ \A i \in RecordLines(pos) :
          Cardinality({k \in 1..Len(events) : events[k].line = i}) = 1
    /\ (pc = "done" /\ result.tag = "Ok") =>
          Len(result.v) = Cardinality(RecordLines(Len(file.lines)))

\* a returned sequence of one event from a file with a Summary line, a blank
\* or undecodable line and a record line
C3_Witness ==
    /\ pc = "done"
    /\ result.tag = "Ok"
    /\ Len(result.v) = 1
    /\ \E i \in 1..Len(file.lines) :
          FromStr(file.lines[i]).ok /\ file.lines[i].type = "summary"
    /\ \E i \in 1..Len(file.lines) :
          file.lines[i].blank \/ IsMalformedLine(file.lines[i])

\* C4: the events are in the order of their source lines, whatever their
\* timestamps.
C4_FileOrder ==
    /\ \A k1, k2 \in 1..Len(events) :
          k1 < k2 => events[k1].line < events[k2].line
    /\ (pc = "done" /\ result.tag = "Ok") =>
          \A k1, k2 \in 1..Len(result.v) :
             k1 < k2 => result.v[k1].line < result.v[k2].line

\* a returned sequence whose first event has the later timestamp
C4_Witness ==
    /\ pc = "done"
    /\ result.tag = "Ok"
    /\ Len(result.v) >= 2
    /\ result.v[1].timestamp > result.v[2].timestamp

----------------------------------------------------------------------------
(* Claims about search_in_session, checked under SpecSearch *)

\* the search ran on the corpus and the query of the end-to-end example
IsExample ==
    /\ documents = <<ExampleDoc1, ExampleDoc2, ExampleDoc3>>
    /\ query = ExampleQuery

\* the events the returned matches were made from
MatchedEvents == {result.v[k].event : k \in 1..Len(result.v)}

\* the document has a token that is a query term
HasQueryTerm(q, document) ==
    \E i \in 1..Len(tokenize(q)) : TermFreq(tokenize(document), tokenize(q)[i]) > 0

\* C5 as stated: on the example, documents 1 and 3 are the matches and
\* document 2 is excluded.
C5_ExampleMatches ==
    (pc = "done" /\ IsExample) => (result.tag = "Ok" /\ MatchedEvents = {1, 3})

\* C5 as amended: on the example, "brown" and "fox" each occur in 2 of the 3
\* documents, their idf is negative, documents 1 and 3 score below 0 and
\* document 2 scores 0: the search returns no match.
C5_ExampleNoMatch ==
    (pc = "done" /\ IsExample) =>
        /\ result = Ok(<<>>)
        /\ BM25_score(bm25, query, documents[1]).v < 0
        /\ BM25_score(bm25, query, documents[2]) = Fin(0)
        /\ BM25_score(bm25, query, documents[3]).v < 0

\* the search on the example has returned
C5_Witness == pc = "done" /\ IsExample /\ result.tag = "Ok"

\* C8: the matches returned are those of exactly the events whose document
\* scores above 0, one each with that score, highest score first.
C8_PositiveScoresRanked ==
    (pc = "done" /\ result.tag = "Ok" /\ ~TrimIsEmpty(query)) =>
        /\ MatchedEvents =
              {i \in 1..Len(documents) :
                  FPositive(BM25_score(bm25, query, documents[i]))}
        /\ Len(result.v) = Cardinality(MatchedEvents)
        /\ \A k \in 1..Len(result.v) :
              result.v[k].score = BM25_score(bm25, query, documents[result.v[k].event])
        /\ \A k1, k2 \in 1..Len(result.v) :
              k1 < k2 => result.v[k1].score.v >= result.v[k2].score.v

\* a search that returned a match and left out a document that has a query
\* term
C8_Witness ==
    /\ pc = "done"
    /\ result.tag = "Ok"
    /\ Len(result.v) >= 1
    /\ \E i \in 1..Len(documents) :
          HasQueryTerm(query, documents[i]) /\ i \notin MatchedEvents

\* C9: matches with equal scores keep the order of their events, and the
\* comparator does not panic: every score that reaches the sort is a finite
\* number above 0.
C9_StableSortNoPanic ==
    /\ result.tag /= "Panic"
    /\ \A k \in 1..Len(scored_matches) : FPositive(scored_matches[k].score)
    /\ (pc = "done" /\ result.tag = "Ok") =>
          \A k1, k2 \in 1..Len(result.v) :
             (k1 < k2 /\ result.v[k1].score = result.v[k2].score)
                 => result.v[k1].event < result.v[k2].event

\* a search that returned two matches of equal score
C9_Witness ==
    /\ pc = "done"
    /\ result.tag = "Ok"
    /\ \E k1, k2 \in 1..Len(result.v) :
          k1 < k2 /\ result.v[k1].score = result.v[k2].score

----------------------------------------------------------------------------
(* Claims about BM25::new and BM25::score, checked under SpecScore *)

\* every token of the query is a token of the document, and there is one
HasAllQueryTerms(q, document) ==
    /\ tokenize(q) /= <<>>
    /\ \A i \in 1..Len(tokenize(q)) :
          TermFreq(tokenize(document), tokenize(q)[i]) > 0

\* no query term occurs in more than half of the indexed documents
NoCommonQueryTerm(bm, q) ==
    \A i \in 1..Len(tokenize(q)) :
        2 * DfGet(bm.doc_frequencies, tokenize(q)[i]) <= bm.doc_count

\* a >= b of two finite scores
FGe(a, b) == a.k = "fin" /\ b.k = "fin" /\ a.v >= b.v

\* the last two calls scored a document that has every query term and one
\* that has none
ScoredAllAndNone ==
    /\ pc = "ready"
    /\ score_last.called
    /\ score_prev.called
    /\ HasAllQueryTerms(query, score_last.document)
    /\ ~HasQueryTerm(query, score_prev.document)

\* C6 as stated: a document that has all the query terms scores at least as
\* high as one that has none.
C6_AllTermsAtLeastNone ==
    ScoredAllAndNone => FGe(score_last.score, score_prev.score)

\* C6 as amended: it does when no query term occurs in more than half of the
\* indexed documents (2 df <= N).
C6_AllTermsAtLeastNoneIfRare ==
    (ScoredAllAndNone /\ NoCommonQueryTerm(bm25, query)) =>
        FGe(score_last.score, score_prev.score)

\* a document with both terms of a two-term query scored above one with none
C6_Witness ==
    /\ ScoredAllAndNone
    /\ NoCommonQueryTerm(bm25, query)
    /\ Len(tokenize(query)) = 2
    /\ score_last.score.v > score_prev.score.v

\* the query is one term, and the last two calls scored two documents that
\* have it exactly once, the last one the shorter
ScoredShorterAndLonger ==
    /\ pc = "ready"
    /\ score_last.called
    /\ score_prev.called
    /\ Len(tokenize(query)) = 1
    /\ TermFreq(tokenize(score_last.document), tokenize(query)[1]) = 1
    /\ TermFreq(tokenize(score_prev.document), tokenize(query)[1]) = 1
    /\ Len(tokenize(score_last.document)) < Len(tokenize(score_prev.document))

\* C7 as stated: of two documents that have the query term exactly once, the
\* shorter scores at least as high as the longer.
C7_ShorterAtLeastLonger ==
    ScoredShorterAndLonger => FGe(score_last.score, score_prev.score)

\* C7 as amended: it does when the term occurs in at most half of the
\* indexed documents (2 df <= N).
C7_ShorterAtLeastLongerIfRare ==
    (ScoredShorterAndLonger /\ NoCommonQueryTerm(bm25, query)) =>
        FGe(score_last.score, score_prev.score)

\* the shorter document scored strictly above the longer
C7_Witness ==
    /\ ScoredShorterAndLonger
    /\ NoCommonQueryTerm(bm25, query)
    /\ score_last.score.v > score_prev.score.v

\* no indexed document has a token: there is no document, or every document
\* is of length zero
ZeroLengthCorpus == \A i \in 1..Len(documents) : tokenize(documents[i]) = <<>>

\* C10: when the average document length is 0, every call of score returns
\* exactly 0, a finite number.
C10_ZeroAverageScoresZero ==
    (pc = "ready" /\ ZeroLengthCorpus) =>
        /\ bm25.avg_doc_length.k = "fin"
        /\ bm25.avg_doc_length.n = 0
        /\ score_last.called => score_last.score = Fin(0)
        /\ score_prev.called => score_prev.score = Fin(0)

\* over the empty corpus, a document that has a query term was scored
C10_Witness ==
    /\ pc = "ready"
    /\ documents = <<>>
    /\ score_last.called
    /\ HasQueryTerm(query, score_last.document)

----------------------------------------------------------------------------
(* Further claims about search_in_session, checked under SpecSearch *)

\* C11: for an empty or whitespace-only query the search returns the empty
\* match list and no error, whatever the session file.
C11_BlankQueryEmptyResult ==
    (pc = "done" /\ TrimIsEmpty(query)) => result = Ok(<<>>)

----------------------------------------------------------------------------
(* Further claims about BM25::new and BM25::score, checked under SpecScore *)

\* the tokens of the indexed document i, as a set
TokenSet(i) ==
    {tokenize(documents[i])[k] : k \in 1..Len(tokenize(documents[i]))}

\* the number of tokens of the first n indexed documents
TokenCount[n \in 0..(MaxCorpus + 1)] ==
    IF n = 0 THEN 0 ELSE TokenCount[n - 1] + Len(tokenize(documents[n]))

\* C16: the document frequency stored for a term is the number of indexed
\* documents that have the term at least once, and every token of an indexed
\* document has one.
C16_DocumentFrequency ==
    pc = "ready" =>
        /\ DOMAIN bm25.doc_frequencies = UNION {TokenSet(i) : i \in 1..Len(documents)}
        /\ \A t \in DOMAIN bm25.doc_frequencies :
              bm25.doc_frequencies[t] =
                  Cardinality({i \in 1..Len(documents) : t \in TokenSet(i)})

\* an index over two documents, one with a term twice, the term counted once
\* for each document
C16_Witness ==
    /\ pc = "ready"
    /\ Len(documents) = 2
    /\ \E i \in 1..2 : TermFreq(tokenize(documents[i]), W_fox) = 2
    /\ W_fox \in DOMAIN bm25.doc_frequencies
    /\ bm25.doc_frequencies[W_fox] = 2

\* C17: the average document length is the total token count over the
\* document count (n / d = total / count), and 0 when there is no document.
C17_AverageLength ==
    pc = "ready" =>
        /\ bm25.avg_doc_length.k = "fin"
        /\ bm25.doc_count = Len(documents)
        /\ IF Len(documents) = 0
           THEN bm25.avg_doc_length.n = 0
           ELSE bm25.avg_doc_length.n * Len(documents)
                    = bm25.avg_doc_length.d * TokenCount[Len(documents)]

\* an index over two documents of different lengths, one with a repeated
\* token, whose average is not a whole number
C17_Witness ==
    /\ pc = "ready"
    /\ Len(documents) = 2
    /\ TokenCount[2] = 3
    /\ \E i \in 1..2 : TermFreq(tokenize(documents[i]), W_fox) = 2
    /\ bm25.avg_doc_length.n = 3
    /\ bm25.avg_doc_length.d = 2

\* the contribution of query term number j to the score of the document: idf
\* times the tf component when the document has the term, nothing otherwise
Contribution(bm, q, document, j) ==
    LET term == tokenize(q)[j]
        tf == TermFreq(tokenize(document), term)
    IN  IF tf > 0
        THEN Idf(bm.doc_count, DfGet(bm.doc_frequencies, term)).v
             * NormalizedTf(tf, Len(tokenize(document)), bm.avg_doc_length,
                            bm.k1, bm.b).v
        ELSE 0

\* the sum of the contributions of the first n query terms
ContributionSum(bm, q, document, n) ==
    LET S[j \in 0..n] ==
            IF j = 0 THEN 0 ELSE S[j - 1] + Contribution(bm, q, document, j)
    IN  S[n]

\* C18: the score is the sum over the query terms the document has of idf
\* times the tf component; a document with no query term scores exactly 0.
C18_ScoreIsSumOverPresentTerms ==
    (pc = "ready" /\ score_last.called) =>
        /\ score_last.score =
              Fin(ContributionSum(bm25, query, score_last.document,
                                  Len(tokenize(query))))
        /\ ~HasQueryTerm(query, score_last.document) => score_last.score = Fin(0)

\* a document that has one term of a two-term query and not the other, the
\* missing term indexed, scored other than 0
C18_Witness ==
    /\ pc = "ready"
    /\ score_last.called
    /\ Len(tokenize(query)) = 2
    /\ HasQueryTerm(query, score_last.document)
    /\ ~HasAllQueryTerms(query, score_last.document)
    /\ \A j \in 1..2 : tokenize(query)[j] \in DOMAIN bm25.doc_frequencies
    /\ score_last.score.v /= 0

----------------------------------------------------------------------------
(* convert_to_display_event on one record: SpecConvert *)

\* the record of the file and the event made from it
Rec == file.lines[1]
Ev == result.v[1]
Converted == pc = "done" /\ result.tag = "Ok" /\ Len(result.v) = 1

\* the blocks of type ty, in block order
BlocksOf(blocks, ty) == SelectSeq(blocks, LAMBDA b : b.type = ty)

\* C12 as stated: the thinking field of an Assistant event is the text of the
\* first Thinking block of the record.
C12_FirstThinkingKept ==
    (Converted /\ Rec.type = "assistant"
        /\ BlocksOf(Rec.blocks, "thinking") /= <<>>)
    => Ev.thinking = Some(Head(BlocksOf(Rec.blocks, "thinking")).text)

\* C12 amended: the thinking field of an Assistant event is the text of the
\* last Thinking block of the record, and is absent when there is none.
C12_LastThinkingKept ==
    (Converted /\ Rec.type = "assistant")
    => LET th == BlocksOf(Rec.blocks, "thinking") IN
       Ev.thinking = IF th = <<>> THEN None ELSE Some(th[Len(th)].text)

C12_Witness ==
    /\ Converted /\ Rec.type = "assistant"
    /\ LET th == BlocksOf(Rec.blocks, "thinking") IN
       /\ Len(th) >= 2
       /\ th[1].text /= th[Len(th)].text
       /\ Ev.thinking = Some(th[Len(th)].text)

\* C13: the tool info of an Assistant event is the name, id and input of the
\* last ToolUse block of the record, and is absent when there is none.
C13_LastToolUseKept ==
    (Converted /\ Rec.type = "assistant")
    => LET tu == BlocksOf(Rec.blocks, "tool_use") IN
       IF tu = <<>> THEN ~Ev.tool_info.some
       ELSE /\ Ev.tool_info.some
            /\ Ev.tool_info.name = tu[Len(tu)].name
            /\ Ev.tool_info.id = tu[Len(tu)].id
            /\ Ev.tool_info.input = tu[Len(tu)].input

C13_Witness ==
    /\ Converted /\ Rec.type = "assistant"
    /\ LET tu == BlocksOf(Rec.blocks, "tool_use") IN
       /\ Len(tu) >= 2
       /\ tu[1].name /= tu[Len(tu)].name
       /\ Ev.tool_info.name = tu[Len(tu)].name
       /\ Ev.tool_info.input = tu[Len(tu)].input

\* the texts of the blocks of type in tys, in block order
TextsOf(blocks, tys) ==
    LET kept == SelectSeq(blocks, LAMBDA b : b.type \in tys)
    IN  [i \in 1..Len(kept) |-> kept[i].text]

\* C14: the content of an Assistant event is the texts of the Text blocks of
\* the record, in block order, with one newline between consecutive ones,
\* an empty text included.
C14_ContentIsNewlineJoin ==
    (Converted /\ Rec.type = "assistant")
    => Ev.content = JoinWith(TextsOf(Rec.blocks, {"text"}), NL)

\* C15: the content of a User event is the plain string of the record, or
\* the newline-join of the texts of its Text and ToolResult blocks in block
\* order, an Image block adding neither text nor separator.
C15_UserContent ==
    (Converted /\ Rec.type = "user")
    => Ev.content = IF Rec.is_text THEN Rec.content
                    ELSE JoinWith(TextsOf(Rec.blocks, {"text", "tool_result"}),
                                  NL)

C15_Witness ==
    /\ Converted /\ Rec.type = "user" /\ ~Rec.is_text
    /\ Len(Rec.blocks) = 3
    /\ Rec.blocks[1].type = "text"
    /\ Rec.blocks[2].type = "image"
    /\ Rec.blocks[3].type = "tool_result"
    /\ Ev.content = W_fox \o NL \o W_dog

----------------------------------------------------------------------------
(* tokenize: SpecTokenize *)

\* C19: tokenizing the tokens of a text joined by single spaces gives the
\* same token sequence as tokenizing the text.
C19_TokenizeIdempotent == pc = "done" => retokenized = tokenized

C19_Witness ==
    /\ pc = "done"
    /\ Len(tokenized) >= 2
    /\ \E i \in 1..Len(text_in) : text_in[i] = "I_dot"
    /\ Len(JoinWith(tokenized, SP)) > Len(text_in)
    /\ retokenized = tokenized

----------------------------------------------------------------------------
(* extract_snippet_with_words: SpecSnippet *)

\* the byte offsets at which a character of the text starts, and its length
CodepointBoundaries(t) == {Len(as_bytes(SubSeq(t, 1, k))) : k \in 0..Len(t)}

\* C20: the offsets the snippet extractor slices the text at are codepoint
\* boundaries of the text with start <= end <= text length, and the slicing
\* never fails.
C20_SliceOnCodepointBoundaries ==
    /\ pc /= "panic"
    /\ pc \in {"slice", "done"} =>
        /\ start \in CodepointBoundaries(text_in)
        /\ end \in CodepointBoundaries(text_in)
        /\ start <= end
        /\ end <= Len(as_bytes(text_in))

C20_Witness ==
    /\ pc = "done"
    /\ best_pos.some
    /\ Len(as_bytes(to_lowercase(text_in))) /= Len(as_bytes(text_in))
    /\ best_pos.v > context_chars
    /\ (best_pos.v - context_chars) \notin CodepointBoundaries(text_in)
    /\ start \in CodepointBoundaries(text_in)
    /\ start < end

\* the snippet starts, or ends, with the ellipsis marker
HasLeadingDots == Len(snippet) >= 3 /\ SubSeq(snippet, 1, 3) = Dots
HasTrailingDots ==
    Len(snippet) >= 3 /\ SubSeq(snippet, Len(snippet) - 2, Len(snippet)) = Dots

\* C21: when a query word is found, the snippet has no leading marker when
\* the window starts at the beginning of the text and no trailing marker
\* when the window reaches the end of the text.
C21_MarkerOnlyOnTruncatedSide ==
    (pc = "done" /\ best_pos.some)
    => /\ start = 0 => ~HasLeadingDots
       /\ end = Len(as_bytes(text_in)) => ~HasTrailingDots

\* the first n characters of a text, or all of it when it is shorter
Take(t, n) == SubSeq(t, 1, IF n <= Len(t) THEN n ELSE Len(t))

\* C22: when no query word occurs in the text, the snippet is the first
\* 2 * context_chars characters of the text, or the whole text when it is
\* shorter, followed by the marker only when the text is longer than that.
C22_NoMatchFirstTwoWindows ==
    (pc = "done" /\ ~best_pos.some)
    => snippet = trim(Take(text_in, 2 * context_chars))
                 \o (IF Len(text_in) > 2 * context_chars THEN Dots ELSE <<>>)

\* the numbers of characters of the text before a case-insensitive
\* occurrence of one of the words
OccurrencesIn(t, words) ==
    {k \in 0..Len(t) :
        \E w \in 1..Len(words) : \E m \in k..Len(t) :
            to_lowercase(SubSeq(t, k + 1, m)) = to_lowercase(words[w])}

\* C23: the window is anchored at the earliest offset of the text at which a
\* query word occurs case-insensitively, the minimum over all query words,
\* and spans context_chars characters of the text before and after it.
C23_WindowAroundEarliestOccurrence ==
    pc = "done"
    => LET occ == OccurrencesIn(text_in, query_words) IN
       /\ best_pos.some <=> occ /= {}
       /\ occ /= {} =>
           LET k == Least(occ)
               lo == IF k >= context_chars THEN k - context_chars ELSE 0
           IN  /\ best_pos.v = Len(as_bytes(SubSeq(text_in, 1, k)))
               /\ start = Len(as_bytes(SubSeq(text_in, 1, lo)))
               /\ end = Len(as_bytes(Take(text_in, k + context_chars)))

----------------------------------------------------------------------------
(* highlight_match: SpecHighlight *)

\* the character of t that holds the byte at offset off
CharAtByte(t, off) ==
    t[Cardinality({k \in 1..Len(t) : Len(as_bytes(SubSeq(t, 1, k))) <= off}) + 1]

\* the occurrence at bytes [p, p + n) of t is a whole word
IsWholeWord(t, p, n) ==
    /\ p > 0 => ~is_alphanumeric(CharAtByte(t, p - 1))
    /\ p + n < Len(as_bytes(t)) => ~is_alphanumeric(CharAtByte(t, p + n))

\* C24: every occurrence highlight_match accepts is a whole word: the
\* character before it and the character after it, when they exist, are not
\* alphanumeric, also in a text with multi-byte characters.
C24_AcceptedIsWholeWord ==
    pc \in {"hl_search", "done", "panic"}
    => \A i \in 1..Len(highlighted_ranges) :
           IsWholeWord(to_lowercase(text_in), highlighted_ranges[i].byte_pos,
                       highlighted_ranges[i].word_len)

\* C25: after every step of the collection loop the accepted ranges are
\* pairwise non-overlapping.
C25_RangesNeverOverlap ==
    pc \in {"hl_search", "done", "panic"}
    => \A i, j \in 1..Len(highlighted_ranges) :
           i < j => \/ highlighted_ranges[i].end <= highlighted_ranges[j].start
                    \/ highlighted_ranges[j].end <= highlighted_ranges[i].start

----------------------------------------------------------------------------
(* decoding of content blocks: SpecConvert *)

\* a User or Assistant record with a block list of which a block has an
\* unknown type or a missing or mistyped field
HasBadBlock(rec) ==
    /\ rec.type \in {"user", "assistant"}
    /\ ~rec.is_text
    /\ \E i \in 1..Len(rec.blocks) :
           \/ ~rec.blocks[i].fields
           \/ rec.type = "user"
              /\ rec.blocks[i].type \notin {"text", "image", "tool_result"}
           \/ rec.type = "assistant"
              /\ rec.blocks[i].type \notin {"text", "thinking", "tool_use"}

\* C27: a record of which one content block does not decode is dropped
\* whole: the call succeeds and no event is made from the other blocks.
C27_BadBlockDropsRecord ==
    /\ (pc = "done" /\ HasBadBlock(Rec)) => result = Ok(<<>>)
    /\ (pc = "loop" /\ pos = 1 /\ HasBadBlock(Rec)) => events = <<>>

C27_Witness ==
    /\ pc = "done"
    /\ HasBadBlock(Rec)
    /\ \E i \in 1..Len(Rec.blocks) :
           Rec.blocks[i] \in {Block("text", W_fox), Block("tool_result", W_dog)}
    /\ \E i \in 1..Len(Rec.blocks) : ~Rec.blocks[i].fields
    /\ result = Ok(<<>>)

----------------------------------------------------------------------------
(* BM25::new, the range of the document frequencies: SpecScore *)

\* C28: every term of the document-frequency map has 1 <= df <= doc_count,
\* so the argument of the idf logarithm, (2 N - 2 df + 1) / (2 df + 1), is
\* positive and the idf of every query term is a finite number.
C28_DocumentFrequencyInRange ==
    pc = "ready"
    => /\ \A t \in DOMAIN bm25.doc_frequencies :
              /\ 1 <= bm25.doc_frequencies[t]
              /\ bm25.doc_frequencies[t] <= bm25.doc_count
       /\ \A i \in 1..Len(tokenize(query)) :
              LET df == DfGet(bm25.doc_frequencies, tokenize(query)[i]) IN
              /\ 2 * bm25.doc_count - 2 * df + 1 > 0
              /\ Idf(bm25.doc_count, df).k = "fin"

C28_Witness ==
    /\ pc = "ready"
    /\ bm25.doc_count = 2
    /\ \E i \in 1..Len(tokenize(query)) :
           DfGet(bm25.doc_frequencies, tokenize(query)[i]) = bm25.doc_count
    /\ \E i \in 1..Len(tokenize(query)) :
           DfGet(bm25.doc_frequencies, tokenize(query)[i]) = 0

----------------------------------------------------------------------------
(* SessionNameGenerator::generate: SpecName *)

\* C26: the two words of a generated name differ, for every hash of a
\* session id and every project type.
C26_NameWordsDiffer ==
    pc = "done" => session_name[1] /= session_name[3]

----------------------------------------------------------------------------
(* find_session_file: SpecFind *)

\* C29: when the stem of some session file of a project directory starts
\* with the id, the file returned is one whose stem starts with the id, in
\* whatever order the directories are read.
C29_IdMatchPreferred ==
    (/\ pc = "done"
     /\ found.tag = "Ok"
     /\ \E d \in 1..Len(claude_dir.entries) :
            /\ claude_dir.entries[d].is_dir
            /\ IdMatches(claude_dir.entries[d], session_id) /= {})
    => /\ found.some
       /\ found.file \in IdMatches(claude_dir.entries[found.dir], session_id)

----------------------------------------------------------------------------
(* the token totals: SpecTotals *)

\* the exact sum of a usage field over the assistant events with usage
RECURSIVE ExactSum(_, _)
ExactSum(evs, field) ==
    IF evs = <<>> THEN 0
    ELSE (IF Head(evs).role = "assistant" /\ Head(evs).usage.some
          THEN Head(evs).usage[field] ELSE 0) + ExactSum(Tail(evs), field)

\* C30: the totals shown are the exact sums of input_tokens and of
\* output_tokens over the assistant events with usage, for any number of
\* events: the 32-bit accumulators neither overflow nor wrap.
C30_TotalsExact ==
    /\ pc /= "panic"
    /\ pc = "done" =>
        /\ total_input = ExactSum(events, "input_tokens")
        /\ total_output = ExactSum(events, "output_tokens")

====
